---- MODULE Spec2Model ----
(***************************************************************************)
(* Model of the Daytona cloud sandbox provider of codex-cli                *)
(* (DaytonaSandboxProvider in utils/agent/sandbox/daytona-cloud.ts).       *)
(*                                                                         *)
(* The provider is a process-wide singleton driven by the Node.js event    *)
(* loop.  One action of the model is one run-to-completion piece of        *)
(* JavaScript: the synchronous prefix of a call, or the continuation that  *)
(* runs when an awaited promise settles, up to the next await.  A          *)
(* continuation whose promise is already settled is a microtask; the       *)
(* answer of a remote RPC is a macrotask and is only delivered when no     *)
(* microtask is ready.  New calls from the outside may arrive at any time. *)
(* Logging is off (isLoggingEnabled() is false), so no log line is built.  *)
(***************************************************************************)
EXTENDS Integers, Sequences, FiniteSets, TLC

\* Number of calls of initialize/exec/applyPatch/uploadFile/downloadFile.
NumCalls == 2
\* Number of calls of cleanup(), directly or from a signal handler.
NumCleanups == 2

\* Number of those calls that may be in flight at the same time.
MaxConcurrent == 2

Calls == 1..NumCalls
Cleanups == 1..NumCleanups
\* A promise is kept while the provider or a waiting call refers to it.
Promises == 1..(NumCalls + 1)

\* Values of the environment variable DAYTONA_API_KEY.
ApiKeys == {"missing", "invalid", "valid"}
\* Working directories a caller may pass; "default" stands for none.
SessionKeys == {"default", "/w"}
\* Kinds of argv: a plain one and one that mentions /home/daytona.
Cmds == {"plain", "home"}
\* Patch texts: one without the envelope, one that deletes a file and one
\* that adds a file.
Patches == {"invalid", "delete", "add"}
\* The file the file operations are called with, relative to the root.
FilePath == "f"
\* Messages of the errors the remote binding throws.
ErrMsgs == {"", "Command failed"}
\* Answers of executeSessionCommand.
Responses ==
  { [output |-> "out", error |-> "", exitCode |-> 0, cmdId |-> FALSE],
    [output |-> "", error |-> "err", exitCode |-> 2, cmdId |-> TRUE] }

\* Longest argv of the exec that is looked at by the text of its command.
MaxArgs == 3
\* The arguments of that argv, as atoms: words, numbers, options, the empty
\* string, a quoted text and the shell.
Args ==
  { << >>, <<"ls">>, <<"echo">>, <<"foo">>, <<"5">>, <<"sleep">>, <<"timeout">>,
    <<"python">>, <<"-", "c">>, <<"flask">>, <<"run">>, <<"nohup">>,
    <<"/", "bin", "/", "sh">>, <<"'", "echo", " ", "foo", "'">> }
Argvs == UNION {[1..n -> Args] : n \in 0..MaxArgs}
\* The working directories of that exec; << >> is none.
Workdirs == {<< >>, <<"/", "w">>, <<"/", "server">>}

\* Most segments of the path mapPath is called with.
MaxSegments == 3
\* Most lines of a patch between its first and its last line.
MaxBody == 4
\* Most calls of mapPath that are looked at together.
MaxMapCalls == 3
\* The root directories getUserRootDir() answers with.
RootDirs == {"/home/daytona", "/root"}
\* The segments of that path.
Segments ==
  { << >>, <<".">>, <<".", ".">>, <<"f">>, <<"u">>, <<"u", "x">>, <<"Users">>,
    <<"home">>, <<"daytona">>, <<"f", "\\", "g">> }

VARIABLES
  apiKey,        \* process.env.DAYTONA_API_KEY
  recording,     \* the results of the calls and their submissions are recorded
  lost,          \* the remote workspace: "no", "lost", or "reported" to a caller
  execRun,       \* one exec looked at by the text of its command
  pathArg,       \* the path mapPath is first called with
  mapped,        \* the calls of mapPath so far: <<argument, returned path>>
  patchRun,      \* one applyPatch looked at by the text of its patch
  parseRun,      \* one parseToolCallOutput
  daytona,       \* this.daytona is set
  sandbox,       \* this.sandbox: 0 is null, otherwise the workspace
  initialized,   \* this.initialized
  rootDir,       \* this.rootDir: "null", "" or the remote root
  initPromise,   \* this.initPromise: 0 is null, otherwise a promise
  pathMapping,   \* this.pathMapping
  sessionMap,    \* this.sessionMap, in insertion order
  promises,      \* the promises made by initializeInternal
  calls,         \* the calls of the public operations
  cleanups,      \* the calls of cleanup()
  exited,        \* process.exit has run
  clock,         \* Date.now(), counted in session creations
  createCalls,   \* number of calls of client.create
  nCreated,      \* number of workspaces client.create returned
  removed,       \* workspaces client.remove removed
  removeArgs,    \* arguments client.remove was called with
  settled,       \* the last thing that happened: a cleanup() returned to its caller
  submitted,     \* <<key, id>>: a command of key went to session id
  csIssued,      \* per key, the createSession RPCs for a session of its own
  csDone         \* the session ids createSession has returned for

prov == <<daytona, sandbox, initialized, rootDir, initPromise, pathMapping, sessionMap>>
remote == <<createCalls, nCreated, removed, removeArgs>>
hist == <<settled, submitted, csIssued, csDone>>
given == <<apiKey, recording, execRun, pathArg, mapped, patchRun, parseRun>>
env == <<given, lost>>
vars == <<env, prov, promises, calls, cleanups, exited, clock, remote, hist>>

----------------------------------------------------------------------------
\* Values

NoSid == <<"none", 0>>
defaultSessionId == <<"default-exec-session", 0>>

NoRes == [kind |-> "none", stdout |-> "", stderr |-> "", exitCode |-> 0]
\* A resolved promise of ExecResult.
Value(out, err, code) == [kind |-> "value", stdout |-> out, stderr |-> err, exitCode |-> code]
\* A rejected promise.
Rejected(msg) == [kind |-> "rejected", stdout |-> "", stderr |-> msg, exitCode |-> 0]

NoResp == [output |-> "", error |-> "", exitCode |-> 0, cmdId |-> FALSE]

IdleCall == [op |-> "none", pc |-> "idle", cmd |-> "plain", wd |-> "default",
             p |-> 0, sid |-> NoSid, ws |-> 0, resp |-> NoResp,
             threw |-> FALSE, msg |-> "", aborted |-> FALSE, res |-> NoRes]
\* No exec is looked at by its text.
NoRun == [stage |-> "none", cmd |-> << >>, workdir |-> << >>, prepared |-> << >>,
          commandStr |-> << >>, rpc |-> "none", request |-> << >>, res |-> NoRes]
\* No applyPatch is looked at by its text.
NoPatch == [stage |-> "none", text |-> << >>, lines |-> << >>, i |-> 0,
            currentFilePath |-> << >>, currentFileContent |-> << >>,
            addingFile |-> FALSE, successOutput |-> << >>,
            filePath |-> << >>, content |-> << >>, from |-> "none",
            ops |-> << >>, written |-> << >>, failed |-> << >>, res |-> NoRes]
\* No parseToolCallOutput is looked at.
NoParse == [stage |-> "none", toolCallOutput |-> << >>, output |-> << >>,
            exit_code |-> "none"]
IdleCleanup == [pc |-> "idle", handler |-> FALSE, idx |-> 0, sid |-> NoSid,
                arg |-> 0, live |-> FALSE, tried |-> << >>, swallowed |-> FALSE]

NotInitializedMsg == "Daytona sandbox not initialized"
NullSandboxMsg == "Cannot read properties of null"

\* error.message || String(error)
ErrorText(m) == IF m = "" THEN "Error" ELSE m

\* A catch block of exec that reports success.
ExecCatchZero(m) == Value("", ErrorText(m), 0)
\* The catch block of exec.
ExecCatch(m) == Value("", ErrorText(m), 1)

----------------------------------------------------------------------------
\* initialize() and initializeInternal()

FreePromise == [st |-> "free", err |-> ""]

\* A promise nothing refers to any more is forgotten.
Collect(prs, ip, cs) ==
  [p \in Promises |->
     IF /\ prs[p].st \in {"resolved", "rejected"}
        /\ ip # p
        /\ \A t \in Calls : cs[t].p # p
     THEN FreePromise ELSE prs[p]]

NewPromise == CHOOSE p \in Promises :
                /\ promises[p].st = "free"
                /\ \A q \in Promises : promises[q].st = "free" => p <= q

\* A validateAPIKey() that returns whatever the key is.
validateAPIKeyAccepts == ""
\* validateAPIKey(): the message of the error it throws, "" when it returns.
validateAPIKey ==
  IF apiKey = "missing" THEN "DAYTONA_API_KEY environment variable not set"
  ELSE IF apiKey = "invalid"
       THEN "DAYTONA_API_KEY has invalid format - check your configuration"
       ELSE ""

\* initialize() without the check of this.initPromise.
SharesInitNever == FALSE
\* initialize(): if (this.initPromise) return this.initPromise
SharesInit == initPromise # 0

\* The promise a caller of initialize() waits for; 0 is one that is already
\* resolved (if (this.initialized) return).
Awaited ==
  IF initialized THEN 0
  ELSE IF SharesInit THEN initPromise
  ELSE NewPromise

\* initialize(): what the call does to the provider.  The synchronous start of
\* initializeInternal either throws in validateAPIKey, which rejects the new
\* promise at once, or builds the client and calls client.create.
initialize ==
  IF initialized \/ SharesInit
  THEN UNCHANGED <<promises, initPromise, daytona, createCalls>>
  ELSE /\ initPromise' = NewPromise
       /\ IF validateAPIKey # ""
          THEN /\ promises' = [promises EXCEPT ![NewPromise] =
                                 [st |-> "rejected", err |-> validateAPIKey]]
               /\ UNCHANGED <<daytona, createCalls>>
          ELSE /\ promises' = [promises EXCEPT ![NewPromise] =
                                 [st |-> "create", err |-> ""]]
               /\ daytona' = TRUE
               /\ createCalls' = createCalls + 1

noInitialize == UNCHANGED <<promises, initPromise, daytona, createCalls>>

Settled(p) == IF p = 0 THEN TRUE ELSE promises[p].st \in {"resolved", "rejected"}
Failed(p) == IF p = 0 THEN FALSE ELSE promises[p].st = "rejected"

\* A microtask is ready: a call waits for a promise that has settled or for
\* an async function that returned without waiting, the caller of a call is
\* about to see its result, or a handler is about to call process.exit.
Ready(t) ==
  \/ calls[t].pc \in {"init1", "init2"} /\ Settled(calls[t].p)
  \/ calls[t].pc \in {"yield", "done"}
NoMicrotask ==
  /\ \A t \in Calls : ~Ready(t)
  /\ \A c \in Cleanups : cleanups[c].pc # "exiting"

\* An RPC on the workspace answers without an error only while the
\* workspace is there.
Lives(fine) == fine => lost = "no"

\* initializeInternal(): client.create answers.  this.sandbox is assigned
\* whatever the provider has become in the meantime.
CreateReturn(p, out) ==
  /\ ~exited /\ NoMicrotask
  /\ promises[p].st = "create"
  /\ \/ /\ out = "ok"
        /\ nCreated' = nCreated + 1
        /\ sandbox' = nCreated + 1
        /\ promises' = [promises EXCEPT ![p].st = "rootdir"]
     \/ /\ out = "null"
        /\ sandbox' = 0
        /\ promises' = [promises EXCEPT ![p] =
                         [st |-> "rejected", err |-> "Failed to create Daytona sandbox"]]
        /\ UNCHANGED nCreated
     \/ /\ out = "throw"
        /\ promises' = [promises EXCEPT ![p] = [st |-> "rejected", err |-> "create failed"]]
        /\ UNCHANGED <<nCreated, sandbox>>
  /\ UNCHANGED <<env, daytona, initialized, rootDir, initPromise, pathMapping,
                 sessionMap, calls, cleanups, exited, clock, createCalls, removed,
                 removeArgs, hist>>

\* initializeInternal(): getUserRootDir answers.  setupWorkspace() is started
\* and not awaited; it only creates remote folders and swallows its errors.
RootDirReturn(p, out) ==
  /\ ~exited /\ NoMicrotask /\ Lives(out # "throw")
  /\ promises[p].st = "rootdir"
  /\ \/ /\ out = "ok"
        /\ rootDir' = "/home/daytona"
        /\ initialized' = TRUE
        /\ promises' = [promises EXCEPT ![p].st = "resolved"]
     \/ /\ out = "empty"
        /\ rootDir' = ""
        /\ promises' = [promises EXCEPT ![p] =
                         [st |-> "rejected", err |-> "Failed to get sandbox root directory"]]
        /\ UNCHANGED initialized
     \/ /\ out = "throw"
        /\ promises' = [promises EXCEPT ![p] = [st |-> "rejected", err |-> "root dir failed"]]
        /\ UNCHANGED <<rootDir, initialized>>
  /\ UNCHANGED <<env, daytona, sandbox, initPromise, pathMapping, sessionMap,
                 calls, cleanups, exited, clock, remote, hist>>

----------------------------------------------------------------------------
\* Strings and paths
\*
\* Where the text of a string matters it is a sequence of atoms.  An atom is
\* a character ("/", ".", " ", "-", "'" and the like are always atoms of
\* their own) or a word of letters that stands for its characters; no word
\* that the code searches a string for is a part of another word of that
\* string.  The host is a POSIX one: path is
\* path.posix and path.sep is "/".

\* The atoms of the strings the provider and its callers hold as a whole.
Chars(str) ==
  CASE str = "/home/daytona" -> <<"/", "home", "/", "daytona">>
    [] str = "/root" -> <<"/", "root">>
    [] str = "/w" -> <<"/", "w">>
    [] str = "f" -> <<"f">>
    [] OTHER -> << >>

\* String.prototype.startsWith
StartsWith(str, prefix) ==
  Len(prefix) <= Len(str) /\ SubSeq(str, 1, Len(prefix)) = prefix

\* The positions at which sub occurs in str.
Occurrences(str, sub) ==
  {i \in 1..(Len(str) - Len(sub) + 1) : SubSeq(str, i, i + Len(sub) - 1) = sub}

\* String.prototype.includes
Includes(str, sub) == sub = << >> \/ Occurrences(str, sub) # {}

\* String.prototype.split with a separator of one character.
RECURSIVE Split(_, _)
Split(str, sep) ==
  IF Occurrences(str, <<sep>>) = {} THEN <<str>>
  ELSE LET i == CHOOSE j \in Occurrences(str, <<sep>>) :
                  \A k \in Occurrences(str, <<sep>>) : j <= k
       IN <<SubSeq(str, 1, i - 1)>> \o Split(SubSeq(str, i + 1, Len(str)), sep)

\* Array.prototype.join
RECURSIVE Join(_, _)
Join(parts, sep) ==
  IF parts = << >> THEN << >>
  ELSE IF Len(parts) = 1 THEN parts[1]
  ELSE parts[1] \o sep \o Join(Tail(parts), sep)

NonEmpty(part) == part # << >>
Dot == <<".">>
DotDot == <<".", ".">>

\* normalizeString() of path.posix: "" and "." are dropped and ".." takes
\* the segment before it away; above the start of a relative path it stays.
RECURSIVE NormalizeParts(_, _, _)
NormalizeParts(parts, done, allowAboveRoot) ==
  IF parts = << >> THEN done
  ELSE LET part == Head(parts)
           next == IF part = << >> \/ part = Dot THEN done
                   ELSE IF part = DotDot
                        THEN IF done # << >> /\ done[Len(done)] # DotDot
                             THEN SubSeq(done, 1, Len(done) - 1)
                             ELSE IF allowAboveRoot THEN Append(done, part)
                                  ELSE done
                        ELSE Append(done, part)
       IN NormalizeParts(Tail(parts), next, allowAboveRoot)

\* path.isAbsolute
isAbsolute(p) == p # << >> /\ p[1] = "/"

\* path.normalize
normalize(p) ==
  IF p = << >> THEN Dot
  ELSE LET abs == isAbsolute(p)
           trailing == p[Len(p)] = "/"
           body == Join(NormalizeParts(Split(p, "/"), << >>, ~abs), <<"/">>)
       IN IF body = << >>
          THEN IF abs THEN <<"/">> ELSE IF trailing THEN <<".", "/">> ELSE Dot
          ELSE (IF abs THEN <<"/">> ELSE << >>) \o body
                 \o (IF trailing THEN <<"/">> ELSE << >>)

\* path.join
pathJoin(args) ==
  IF SelectSeq(args, NonEmpty) = << >> THEN Dot
  ELSE normalize(Join(SelectSeq(args, NonEmpty), <<"/">>))

\* The number of segments two lists of segments start with in common.
CommonPrefix(a, b) ==
  CHOOSE n \in 0..Len(a) :
    /\ n <= Len(b) /\ SubSeq(a, 1, n) = SubSeq(b, 1, n)
    /\ \A m \in (n + 1)..Len(a) : m > Len(b) \/ SubSeq(a, 1, m) # SubSeq(b, 1, m)

\* path.relative, for two absolute paths.
pathRelative(from, to) ==
  LET f == NormalizeParts(Split(from, "/"), << >>, FALSE)
      t == NormalizeParts(Split(to, "/"), << >>, FALSE)
      n == CommonPrefix(f, t)
  IN Join([i \in 1..(Len(f) - n) |-> DotDot] \o SubSeq(t, n + 1, Len(t)), <<"/">>)

----------------------------------------------------------------------------
\* mapPath()

\* mapPath(): throws unless the provider is initialized and has a root.
mapPathThrows == ~initialized \/ rootDir \in {"null", ""}

\* os.homedir(), the home directory of the user on the host.
homedir == <<"/", "u">>

\* isSystemDirectory(): 'home' is no system directory whatever else the path
\* holds.
isSystemDirectory(component, allParts) ==
  IF component = <<"home">> /\ \E i \in 1..Len(allParts) : allParts[i] = <<"daytona">>
  THEN FALSE
  ELSE component \in {<<"Users">>, <<"usr">>, <<"var">>, <<"Library">>, <<"System">>,
                      <<"Applications">>}

\* Array.prototype.findIndex for the first part that is no system directory,
\* and the slice from it: slice(-1) is the last part.
relevantParts(pathParts) ==
  LET found == {i \in 1..Len(pathParts) : ~isSystemDirectory(pathParts[i], pathParts)}
  IN IF pathParts = << >> THEN << >>
     ELSE IF found = {}
     THEN SubSeq(pathParts, Len(pathParts), Len(pathParts))
     ELSE SubSeq(pathParts, CHOOSE i \in found : \A j \in found : i <= j, Len(pathParts))

\* calculateRemotePath()
calculateRemotePath(localPath) ==
  IF /\ ~isAbsolute(localPath)
     /\ ~Includes(localPath, <<"/">>) /\ ~Includes(localPath, <<"\\">>)
  THEN pathJoin(<<Chars(rootDir), localPath>>)
  ELSE IF isAbsolute(localPath)
       THEN IF StartsWith(localPath, homedir)
            THEN pathJoin(<<Chars(rootDir), pathRelative(homedir, localPath)>>)
            ELSE IF Includes(localPath, <<"/", "home", "/", "daytona">>)
                 THEN localPath
                 ELSE pathJoin(<<Chars(rootDir)>>
                                 \o relevantParts(SelectSeq(Split(localPath, "/"), NonEmpty)))
       ELSE pathJoin(<<Chars(rootDir), localPath>>)

\* A mapPath that maps what it finds in the cache once more.
mapPathRemaps(h) ==
  IF h \in DOMAIN pathMapping
  THEN (h :> calculateRemotePath(pathMapping[h])) @@ pathMapping
  ELSE (h :> calculateRemotePath(h)) @@ pathMapping

\* mapPath(): the cache after the call.
mapPath(h) ==
  IF h \in DOMAIN pathMapping THEN pathMapping
  ELSE (h :> calculateRemotePath(h)) @@ pathMapping

----------------------------------------------------------------------------
\* prepareCommand()

\* '/bin/sh -c'
BinShC == <<"/", "bin", "/", "sh", " ", "-", "c">>

\* A test for the shell wrapper that never finds it.
AlreadyWrappedNever(str) == FALSE
\* commandStr.startsWith('/bin/sh -c')
AlreadyWrapped(str) == StartsWith(str, BinShC)

\* str.replace(/'/g, "'\\''")
EscapeQuotes(str) == Join(Split(str, "'"), <<"'", "\\", "'", "'">>)

\* `/bin/sh -c '${body}'`
InShell(body) == BinShC \o <<" ", "'">> \o body \o <<"'">>

Digits == {"0", "1", "2", "3", "4", "5", "6", "7", "8", "9"}

\* The number of atoms at the start of str that are in set.
LeadingIn(str, set) ==
  CHOOSE n \in 0..Len(str) :
    /\ \A i \in 1..n : str[i] \in set
    /\ n = Len(str) \/ str[n + 1] \notin set

\* The number of atoms at the start of str that are not in set.
LeadingNotIn(str, set) ==
  CHOOSE n \in 0..Len(str) :
    /\ \A i \in 1..n : str[i] \notin set
    /\ n = Len(str) \/ str[n + 1] \in set

\* What is left of str after its first n atoms.
Drop(str, n) == SubSeq(str, n + 1, Len(str))

\* fixSimpleFilenamePaths(), line 479: the command string matches
\* /^(rm|ls|cat|chmod|python|python3|head|tail|mkdir)\s+([^\/\\\s\-]+)(\s|$)/
simpleFileCommandRegex(str) ==
  \E command \in {<<"rm">>, <<"ls">>, <<"cat">>, <<"chmod">>, <<"python">>,
                   <<"python", "3">>, <<"head">>, <<"tail">>, <<"mkdir">>} :
    /\ StartsWith(str, command)
    /\ LET afterCommand == Drop(str, Len(command))
           afterSpace == Drop(afterCommand, LeadingIn(afterCommand, {" "}))
           afterArg == Drop(afterSpace, LeadingNotIn(afterSpace, {"/", "\\", " ", "-"}))
       IN /\ Len(afterSpace) < Len(afterCommand)
          /\ Len(afterArg) < Len(afterSpace)
          /\ afterArg = << >> \/ afterArg[1] = " "

\* fixSimpleFilenamePaths()
fixSimpleFilenamePaths(commandStr) ==
  IF simpleFileCommandRegex(commandStr)
  THEN LET cmdParts == Split(commandStr, " ")
           arg == IF Len(cmdParts) >= 2 THEN cmdParts[2] ELSE << >>
       IN IF /\ arg # << >> /\ arg[1] # "-"
             /\ ~Includes(arg, <<"/">>) /\ ~Includes(arg, <<"\\">>)
          THEN Join([cmdParts EXCEPT ![2] = pathJoin(<<Chars(rootDir), arg>>)], <<" ">>)
          ELSE commandStr
  ELSE commandStr

\* needsShellWrapping(); the atom "backquote" is the character of that name.
needsShellWrapping(commandStr) ==
  \/ Includes(commandStr, <<" ", ">", " ">>)
  \/ Includes(commandStr, <<" ", "|", " ">>)
  \/ Includes(commandStr, <<" ", "&", "&", " ">>)
  \/ Includes(commandStr, <<" ", ";", " ">>)
  \/ Includes(commandStr, <<" ", "&", " ">>)
  \/ Includes(commandStr, <<"nohup", " ">>)
  \/ Includes(commandStr, <<"\"">>)
  \/ Includes(commandStr, <<"'">>)
  \/ Includes(commandStr, <<"backquote">>)
  \/ Includes(commandStr, <<"$">>)
  \/ /\ StartsWith(commandStr, <<"python">>)
     /\ Includes(commandStr, <<"-", "c">>) \/ Includes(commandStr, <<"-", "m">>)
  \/ /\ StartsWith(commandStr, <<"python", "3">>)
     /\ Includes(commandStr, <<"-", "c">>) \/ Includes(commandStr, <<"-", "m">>)
  \/ Includes(commandStr, <<"echo">>)
  \/ Includes(commandStr, <<"which">>)
  \/ Includes(commandStr, <<"find">>)
  \/ Includes(commandStr, <<"grep">>)

\* fixPythonCommand(), line 568: the Python code the regular expression
\* captures where it first matches, or << >> when it matches nowhere:
\* python or python3, spaces, -c, spaces, a single or double quote, and then
\* everything up to the last quote of the string.
pythonCode(str) ==
  LET codeAt(i) ==
        LET afterPython == Drop(str, i)
            after3 == IF afterPython # << >> /\ afterPython[1] = "3"
                      THEN Drop(afterPython, 1) ELSE afterPython
            afterSpace == Drop(after3, LeadingIn(after3, {" "}))
            afterC == Drop(afterSpace, 2)
            afterSpace2 == Drop(afterC, LeadingIn(afterC, {" "}))
            quotes == {j \in 3..Len(afterSpace2) : afterSpace2[j] \in {"'", "\""}}
        IN IF /\ Len(afterSpace) < Len(after3)
              /\ StartsWith(afterSpace, <<"-", "c">>)
              /\ Len(afterSpace2) < Len(afterC)
              /\ afterSpace2 # << >>
              /\ afterSpace2[1] \in {"'", "\""}
              /\ quotes # {}
           THEN SubSeq(afterSpace2, 2, (CHOOSE j \in quotes : \A k \in quotes : k <= j) - 1)
           ELSE << >>
      starts == {i \in Occurrences(str, <<"python">>) : codeAt(i) # << >>}
  IN IF starts = {} THEN << >>
     ELSE codeAt(CHOOSE i \in starts : \A j \in starts : i <= j)

\* fixPythonCommand()
fixPythonCommand(commandStr) ==
  IF /\ \/ Includes(commandStr, <<"python", " ", "-", "c">>)
        \/ Includes(commandStr, <<"python", "3", " ", "-", "c">>)
     /\ ~AlreadyWrapped(commandStr)
     /\ pythonCode(commandStr) # << >>
  THEN InShell(<<"python", "3", " ", "-", "c", " ", "\"">>
                 \o EscapeQuotes(pythonCode(commandStr)) \o <<"\"">>)
  ELSE commandStr

\* fixTimeoutCommand(), line 593: what /timeout\s+(?:-t\s+)?(\d+)\s+(.*)/
\* captures where it first matches, <<seconds, actualCommand>>, or << >>.
\* The seconds are written without a leading zero, so parseInt gives them
\* back as they are.
timeoutMatch(str) ==
  LET matchAt(i) ==
        LET afterTimeout == Drop(str, i)
            afterSpace == Drop(afterTimeout, LeadingIn(afterTimeout, {" "}))
            afterT == IF StartsWith(afterSpace, <<"-", "t", " ">>)
                      THEN Drop(afterSpace, 2 + LeadingIn(Drop(afterSpace, 2), {" "}))
                      ELSE afterSpace
            seconds == SubSeq(afterT, 1, LeadingIn(afterT, Digits))
            afterSeconds == Drop(afterT, Len(seconds))
            actualCommand == Drop(afterSeconds, LeadingIn(afterSeconds, {" "}))
        IN IF /\ Len(afterSpace) < Len(afterTimeout)
              /\ seconds # << >>
              /\ Len(actualCommand) < Len(afterSeconds)
           THEN <<seconds, actualCommand>>
           ELSE << >>
      starts == {i \in Occurrences(str, <<"timeout">>) : matchAt(i) # << >>}
  IN IF starts = {} THEN << >>
     ELSE matchAt(CHOOSE i \in starts : \A j \in starts : i <= j)

\* fixTimeoutCommand()
fixTimeoutCommand(commandStr) ==
  IF /\ StartsWith(commandStr, <<"timeout", " ">>)
     /\ ~AlreadyWrapped(commandStr)
     /\ timeoutMatch(commandStr) # << >>
  THEN InShell(timeoutMatch(commandStr)[2]
                 \o <<" ", "&", " ", "pid", "=", "$", "!", ";", " ", "sleep", " ">>
                 \o timeoutMatch(commandStr)[1]
                 \o <<";", " ", "kill", " ", "$", "pid", " ", "2", ">", "/", "dev", "/",
                      "null", " ", "|", "|", " ", "true", ";", " ", "wait", " ", "$",
                      "pid", " ", "2", ">", "/", "dev", "/", "null", " ", "|", "|",
                      " ", "true">>)
  ELSE commandStr

\* fixSleepCommand(), line 618: the seconds /sleep\s+(\d+)/ captures where
\* it first matches, or << >>.
sleepSeconds(str) ==
  LET secondsAt(i) ==
        LET afterSleep == Drop(str, i)
            afterSpace == Drop(afterSleep, LeadingIn(afterSleep, {" "}))
        IN IF Len(afterSpace) < Len(afterSleep)
           THEN SubSeq(afterSpace, 1, LeadingIn(afterSpace, Digits))
           ELSE << >>
      starts == {i \in Occurrences(str, <<"sleep">>) : secondsAt(i) # << >>}
  IN IF starts = {} THEN << >>
     ELSE secondsAt(CHOOSE i \in starts : \A j \in starts : i <= j)

\* fixSleepCommand()
fixSleepCommand(commandStr) ==
  IF /\ StartsWith(commandStr, <<"sleep", " ">>)
     /\ ~Includes(commandStr, <<" ", "&", "&", " ">>)
     /\ ~AlreadyWrapped(commandStr)
     /\ sleepSeconds(commandStr) # << >>
  THEN InShell(<<"sleep", " ">> \o sleepSeconds(commandStr))
  ELSE commandStr

\* fixNohupCommand()
fixNohupCommand(commandStr) ==
  IF StartsWith(commandStr, <<"nohup", " ">>) /\ ~AlreadyWrapped(commandStr)
  THEN InShell(<<"nohup", " ">> \o EscapeQuotes(Drop(commandStr, 2)))
  ELSE commandStr

\* commandStr.split(' ').pop()
LastWord(str) == Split(str, " ")[Len(Split(str, " "))]

\* fixFlaskCommand()
fixFlaskCommand(commandStr) ==
  IF /\ \/ Includes(commandStr, <<"flask", " ", "run">>)
        \/ /\ Includes(commandStr, <<"python">>)
           /\ Includes(commandStr, <<"app", ".", "py">>)
     /\ ~AlreadyWrapped(commandStr)
     /\ ~Includes(commandStr, <<" ", "-", "w", " ">>)
     /\ ~Includes(commandStr, <<" ", "-", "-", "no", "-", "background">>)
     /\ ~Includes(commandStr, <<" ", "&", " ">>)
  THEN InShell(<<"cd", " ", "$", "(", "dirname", " ">>
                 \o EscapeQuotes(LastWord(commandStr))
                 \o <<")", ";", " ", "nohup", " ">>
                 \o EscapeQuotes(commandStr)
                 \o <<" ", ">", " ", "flask", ".", "log", " ", "2", ">", "&", "1", " ",
                      "&", " ", "echo", " ", "\"", "Flask", " ", "app", " ", "started",
                      " ", "with", " ", "PID", ":", " ", "$", "!", "\"">>)
  ELSE commandStr

\* applyCommandSpecificFixes()
applyCommandSpecificFixes(commandStr) ==
  fixFlaskCommand(fixNohupCommand(fixSleepCommand(fixTimeoutCommand(fixPythonCommand(
    IF needsShellWrapping(commandStr) /\ ~AlreadyWrapped(commandStr)
    THEN InShell(EscapeQuotes(commandStr))
    ELSE commandStr)))))

\* prepareCommand()
prepareCommand(cmd) ==
  applyCommandSpecificFixes(fixSimpleFilenamePaths(Join(cmd, <<" ">>)))

\* exec(), lines 291-300: the command with the working directory in front.
commandLine(cmd, remoteWorkdir) ==
  IF remoteWorkdir # << >>
  THEN <<"cd", " ">> \o remoteWorkdir \o <<" ", "&", "&", " ">> \o prepareCommand(cmd)
  ELSE prepareCommand(cmd)

\* isWebServerCommand()
isWebServerCommand(commandStr) ==
  \/ Includes(commandStr, <<"flask", " ", "run">>)
  \/ Includes(commandStr, <<"python">>) /\ Includes(commandStr, <<"app", ".", "py">>)
  \/ Includes(commandStr, <<"node", " ">>)
  \/ Includes(commandStr, <<"npm", " ", "start">>)
  \/ Includes(commandStr, <<"npm", " ", "run", " ", "dev">>)
  \/ Includes(commandStr, <<"npx">>)
  \/ Includes(commandStr, <<"rails", " ", "server">>)
  \/ Includes(commandStr, <<"rails", " ", "s">>)
  \/ Includes(commandStr, <<"server">>)
  \/ Includes(commandStr, <<"serve">>)
  \/ Includes(commandStr, <<"express">>)
  \/ Includes(commandStr, <<"http", "-", "server">>)
  \/ Includes(commandStr, <<"live", "-", "server">>)

----------------------------------------------------------------------------
\* The calls of the public operations

\* Calls are made in the order of their numbers, a bounded number at a time.
InFlight == {t \in Calls : calls[t].pc \notin {"idle", "returned"}}
MayCall(t) ==
  /\ ~exited /\ calls[t].pc = "idle"
  /\ IF t = 1 THEN TRUE ELSE calls[t - 1].pc # "idle"
  /\ Cardinality(InFlight) < MaxConcurrent

\* A call has settled its promise: it keeps the result and what it observed
\* until its caller has seen them.
Finish(c, res) ==
  IF recording
  THEN [IdleCall EXCEPT !.op = c.op, !.pc = "done", !.res = res, !.ws = c.ws,
                        !.wd = c.wd, !.threw = c.threw, !.msg = c.msg,
                        !.aborted = c.aborted]
  ELSE [IdleCall EXCEPT !.pc = "returned"]

\* A call has told its caller that an RPC of its operation failed.
ReportsFailure(c) ==
  /\ c.pc = "done" /\ c.res.kind = "value"
  /\ CASE c.op = "exec" -> c.threw
       [] c.op = "uploadFile" -> c.res.stdout = "false"
       [] c.op = "downloadFile" -> c.res.stdout = ""
       [] c.op = "applyPatch" -> c.res.stdout \in {"Error deleting f", "Error creating f"}
       [] OTHER -> FALSE

\* The caller of a call sees its result, which may be the first failure
\* after the workspace was lost.
ReturnToCaller(t) ==
  /\ ~exited /\ calls[t].pc = "done"
  /\ calls' = [calls EXCEPT ![t] = [IdleCall EXCEPT !.pc = "returned"]]
  /\ lost' = IF lost = "lost" /\ ReportsFailure(calls[t]) THEN "reported" ELSE lost
  /\ UNCHANGED <<given, prov, promises, cleanups, exited, clock, remote, hist>>

\* The remote workspace goes away (it expired or was deleted on the remote).
\* Nothing of the process sees that happen.
WorkspaceLost ==
  /\ ~exited /\ recording /\ NoMicrotask
  /\ lost = "no" /\ sandbox # 0
  /\ lost' = "lost"
  /\ UNCHANGED <<given, prov, promises, calls, cleanups, exited, clock, remote,
                 hist>>

----------------------------------------------------------------------------
\* exec()

\* sessionKey.replace(/[^a-zA-Z0-9]/g, '-')
Sanitize(k) == IF k = "/w" THEN "-w" ELSE k

HasSession(k) == \E i \in 1..Len(sessionMap) : sessionMap[i].key = k
SessionOf(k) == sessionMap[CHOOSE i \in 1..Len(sessionMap) : sessionMap[i].key = k].id

\* processCommandResponse(), for an argv that starts no web server.
processCommandResponse(out, r) == Value(out, r.error, r.exitCode)

\* executeSessionCommand is called with session sid; this.sandbox.process
\* throws a TypeError when the sandbox is gone.
Submit(c, sid) ==
  IF sandbox = 0 THEN Finish(c, ExecCatch(NullSandboxMsg))
  ELSE [c EXCEPT !.pc = "exec_cmd", !.sid = sid, !.ws = sandbox]
SubmitLog(c, sid) ==
  IF sandbox = 0 \/ ~recording THEN submitted ELSE submitted \cup {<<c.wd, sid>>}

\* ensureDaytonaHomeDirectory(): where exec waits after calling it.  It returns
\* at once unless the argv mentions /home/daytona, and swallows the TypeError
\* of a sandbox that is gone.
PreFlight(c) ==
  IF c.cmd = "home" /\ sandbox # 0 THEN [c EXCEPT !.pc = "home_check"]
  ELSE [c EXCEPT !.pc = "yield"]

\* exec(), lines 283-332: the working directory, the session of the key, and
\* the first RPC.
ExecBody(t, c) ==
  IF c.wd # "default" /\ mapPathThrows
  THEN /\ calls' = [calls EXCEPT ![t] = Finish(c, ExecCatch(NotInitializedMsg))]
       /\ UNCHANGED <<pathMapping, sessionMap, clock, submitted, csIssued, csDone>>
  ELSE /\ pathMapping' = IF c.wd # "default" THEN mapPath(Chars(c.wd)) ELSE pathMapping
       /\ IF HasSession(c.wd)
          THEN /\ calls' = [calls EXCEPT ![t] = Submit(c, SessionOf(c.wd))]
               /\ submitted' = SubmitLog(c, SessionOf(c.wd))
               /\ UNCHANGED <<sessionMap, clock, csIssued, csDone>>
          ELSE LET sid == <<Sanitize(c.wd), clock + 1>> IN
               /\ sessionMap' = Append(sessionMap, [key |-> c.wd, id |-> sid])
               /\ clock' = clock + 1
               /\ IF sandbox = 0
                  THEN /\ calls' = [calls EXCEPT ![t] = Finish(c, ExecCatch(NullSandboxMsg))]
                       /\ UNCHANGED <<submitted, csIssued, csDone>>
                  ELSE /\ calls' = [calls EXCEPT ![t] =
                                     [c EXCEPT !.pc = "create_session", !.sid = sid,
                                               !.ws = sandbox]]
                       /\ csIssued' = [csIssued EXCEPT ![c.wd] = IF recording THEN @ + 1 ELSE @]
                       /\ UNCHANGED <<submitted, csDone>>

\* exec(), lines 275-281: initialize again if the sandbox went away during
\* the pre-flight, then go on.
ExecMain(t, c) ==
  IF ~initialized \/ sandbox = 0
  THEN /\ initialize
       /\ calls' = [calls EXCEPT ![t] = [c EXCEPT !.pc = "init2", !.p = Awaited]]
       /\ UNCHANGED <<pathMapping, sessionMap, clock, submitted, csIssued, csDone>>
  ELSE /\ noInitialize
       /\ ExecBody(t, c)

\* exec(): ensureDaytonaHomeDirectory returned without an RPC.
ExecYield(t) ==
  /\ ~exited /\ calls[t].pc = "yield"
  /\ ExecMain(t, calls[t])
  /\ UNCHANGED <<env, sandbox, initialized, rootDir, cleanups, exited, nCreated,
                 removed, removeArgs, settled>>

\* ensureDaytonaHomeDirectory(): an RPC of the pre-flight answers.  The probe
\* is followed by fs.createFolder when the directory is missing, and that by
\* mkdir -p when it fails; every error is swallowed.
PreFlightReturn(t, out) ==
  /\ ~exited /\ NoMicrotask /\ Lives(out # "throw")
  /\ calls[t].pc \in {"home_check", "home_mk", "home_mkdir"}
  /\ LET c == calls[t]
         next == IF sandbox = 0 THEN "none"
                 ELSE IF c.pc = "home_check" /\ out = "missing" THEN "home_mk"
                 ELSE IF c.pc = "home_mk" /\ out = "throw" THEN "home_mkdir"
                 ELSE "none"
     IN IF next # "none"
        THEN /\ calls' = [calls EXCEPT ![t].pc = next]
             /\ noInitialize
             /\ UNCHANGED <<pathMapping, sessionMap, clock, submitted, csIssued, csDone>>
        ELSE ExecMain(t, c)
  /\ UNCHANGED <<env, sandbox, initialized, rootDir, cleanups, exited, nCreated,
                 removed, removeArgs, settled>>

\* exec(): the initialize() awaited at line 280 has settled.  This one is
\* inside the try block.
ExecInit2(t) ==
  /\ ~exited /\ calls[t].pc = "init2" /\ Settled(calls[t].p)
  /\ LET c == [calls[t] EXCEPT !.p = 0] IN
     IF Failed(calls[t].p)
     THEN /\ calls' = [calls EXCEPT ![t] = Finish(c, ExecCatch(promises[calls[t].p].err))]
          /\ UNCHANGED <<pathMapping, sessionMap, clock, submitted, csIssued, csDone>>
     ELSE ExecBody(t, c)
  /\ promises' = Collect(promises, initPromise, calls')
  /\ UNCHANGED <<env, daytona, sandbox, initialized, rootDir, initPromise, cleanups,
                 exited, createCalls, nCreated, removed, removeArgs, settled>>

\* exec(), lines 312-331: createSession answers.  When it fails the call
\* falls back to the default session, which it creates as well.
CreateSessionReturn(t, ok) ==
  /\ ~exited /\ NoMicrotask /\ Lives(ok)
  /\ calls[t].pc = "create_session"
  /\ LET c == calls[t] IN
     IF ok
     THEN /\ calls' = [calls EXCEPT ![t] = Submit(c, c.sid)]
          /\ submitted' = SubmitLog(c, c.sid)
          /\ csDone' = IF recording THEN csDone \cup {c.sid} ELSE csDone
     ELSE /\ calls' = [calls EXCEPT ![t] =
                         IF sandbox = 0 THEN Finish(c, ExecCatch(NullSandboxMsg))
                         ELSE [c EXCEPT !.pc = "create_default",
                                        !.sid = defaultSessionId, !.ws = sandbox]]
          /\ UNCHANGED <<submitted, csDone>>
  /\ UNCHANGED csIssued
  /\ UNCHANGED <<env, prov, promises, cleanups, exited, clock, remote, settled>>

\* exec(), lines 326-330: createSession of the default session answers; its
\* error is ignored.
CreateDefaultReturn(t, ok) ==
  /\ ~exited /\ NoMicrotask /\ Lives(ok)
  /\ calls[t].pc = "create_default"
  /\ calls' = [calls EXCEPT ![t] = Submit(calls[t], calls[t].sid)]
  /\ submitted' = SubmitLog(calls[t], calls[t].sid)
  /\ csDone' = IF recording /\ ok THEN csDone \cup {calls[t].sid} ELSE csDone
  /\ UNCHANGED <<env, prov, promises, cleanups, exited, clock, remote, settled,
                 csIssued>>

\* A catch block that gives the workspace up.
CatchInvalidates ==
  /\ initialized' = FALSE
  /\ sandbox' = 0
  /\ UNCHANGED <<daytona, rootDir, initPromise, pathMapping, sessionMap>>
\* The catch block of exec, lines 381-391: it assigns no field of the
\* provider.
CatchKeeps == UNCHANGED prov

\* exec(), lines 346-391: executeSessionCommand throws an error with message
\* m, which the catch block turns into a result.
ExecCmdThrows(t, m) ==
  /\ ~exited /\ NoMicrotask
  /\ calls[t].pc = "exec_cmd"
  /\ LET c == [calls[t] EXCEPT !.threw = TRUE, !.msg = m] IN
     calls' = [calls EXCEPT ![t] = Finish(c, ExecCatch(m))]
  /\ CatchKeeps
  /\ UNCHANGED <<env, promises, cleanups, exited, clock, remote, hist>>

\* exec(), lines 346-380: executeSessionCommand answers r.  With no output
\* and a command id the logs are fetched; without a sandbox that fails at
\* once and is swallowed.
ExecCmdReturn(t, r) ==
  /\ ~exited /\ NoMicrotask /\ Lives(TRUE)
  /\ calls[t].pc = "exec_cmd"
  /\ LET c == calls[t] IN
     calls' = [calls EXCEPT ![t] =
                 IF r.output = "" /\ r.cmdId /\ sandbox # 0
                 THEN [c EXCEPT !.pc = "logs", !.resp = r]
                 ELSE Finish(c, processCommandResponse(r.output, r))]
  /\ UNCHANGED <<env, prov, promises, cleanups, exited, clock, remote, hist>>

\* exec(), lines 362-375: getSessionCommandLogs answers; its error is
\* swallowed.
LogsReturn(t, out) ==
  /\ ~exited /\ NoMicrotask /\ Lives(out # "throw")
  /\ calls[t].pc = "logs"
  /\ LET c == calls[t] IN
     calls' = [calls EXCEPT ![t] =
                 Finish(c, processCommandResponse(IF out = "throw" THEN "" ELSE out, c.resp))]
  /\ UNCHANGED <<env, prov, promises, cleanups, exited, clock, remote, hist>>

\* exec(), line 256: the caller's AbortSignal fires while exec waits for the
\* answer of executeSessionCommand.  exec never reads _abortSignal and has no
\* listener on it, so nothing of the provider or of the call moves.
Abort(t) ==
  /\ ~exited /\ recording
  /\ calls[t].op = "exec" /\ calls[t].pc = "exec_cmd" /\ ~calls[t].aborted
  /\ calls' = [calls EXCEPT ![t].aborted = TRUE]
  /\ UNCHANGED <<env, prov, promises, cleanups, exited, clock, remote, hist>>

----------------------------------------------------------------------------
\* uploadFile(), downloadFile() and applyPatch()

\* The catch block of applyPatch.
PatchCatch(m) == Value("", ErrorText(m), 1)

\* A boolean or a string a file operation resolves to.
Plain(v) == Value(v, "", 0)

\* uploadFile(), lines 874-898, for a file right below the root: mapPath is
\* called outside the try block, then the file is uploaded.
UploadBegin(t, c) ==
  IF mapPathThrows
  THEN /\ calls' = [calls EXCEPT ![t] = Finish(c, Rejected(NotInitializedMsg))]
       /\ UNCHANGED pathMapping
  ELSE /\ pathMapping' = mapPath(Chars(c.wd))
       /\ calls' = [calls EXCEPT ![t] =
                      IF sandbox = 0 THEN Finish(c, Plain("false"))
                      ELSE [c EXCEPT !.pc = "upload"]]

\* downloadFile(), lines 923-926: the existence check is sent.
DownloadBegin(t, c) ==
  /\ calls' = [calls EXCEPT ![t] =
                 IF sandbox = 0 THEN Finish(c, Plain(""))
                 ELSE [c EXCEPT !.pc = "dl_check"]]
  /\ UNCHANGED pathMapping

\* The line deleteFile() and saveAddedFile() add to the output of a patch
\* when their catch block runs.
PatchError(c) == Plain(IF c.cmd = "add" THEN "Error creating f" ELSE "Error deleting f")

\* applyPatch(), lines 1005-1029, with deleteFile() and saveAddedFile(): a
\* text without the envelope is refused; a patch that deletes or adds one
\* file maps its path and sends the first RPC, and reports an error of
\* either in its output.  The error of fs.createFolder is swallowed, so with
\* the sandbox gone it is fs.uploadFile that fails.
PatchBegin(t, c) ==
  IF c.cmd = "invalid"
  THEN /\ calls' = [calls EXCEPT ![t] = Finish(c, PatchCatch("Invalid patch format"))]
       /\ UNCHANGED pathMapping
  ELSE IF mapPathThrows
       THEN /\ calls' = [calls EXCEPT ![t] = Finish(c, PatchError(c))]
            /\ UNCHANGED pathMapping
       ELSE /\ pathMapping' = mapPath(Chars(c.wd))
            /\ calls' = [calls EXCEPT ![t] =
                           IF sandbox = 0 THEN Finish(c, PatchError(c))
                           ELSE [c EXCEPT !.pc = IF c.cmd = "add" THEN "add_folder"
                                                 ELSE "del_file"]]

\* uploadFile(): fs.uploadFile answers; the verification follows.
UploadReturn(t, ok) ==
  /\ ~exited /\ NoMicrotask /\ Lives(ok)
  /\ calls[t].pc = "upload"
  /\ calls' = [calls EXCEPT ![t] =
                 IF ok /\ sandbox # 0 THEN [calls[t] EXCEPT !.pc = "verify"]
                 ELSE Finish(calls[t], Plain("false"))]
  /\ UNCHANGED <<env, prov, promises, cleanups, exited, clock, remote, hist>>

\* uploadFile(): the verification answers.
VerifyReturn(t, out) ==
  /\ ~exited /\ NoMicrotask /\ Lives(out # "throw")
  /\ calls[t].pc = "verify"
  /\ calls' = [calls EXCEPT ![t] =
                 Finish(calls[t], Plain(IF out = "exists" THEN "true" ELSE "false"))]
  /\ UNCHANGED <<env, prov, promises, cleanups, exited, clock, remote, hist>>

\* downloadFile(): the existence check answers; cat follows.
DownloadCheckReturn(t, out) ==
  /\ ~exited /\ NoMicrotask /\ Lives(out # "throw")
  /\ calls[t].pc = "dl_check"
  /\ calls' = [calls EXCEPT ![t] =
                 IF out = "exists" /\ sandbox # 0 THEN [calls[t] EXCEPT !.pc = "dl_cat"]
                 ELSE Finish(calls[t], Plain(""))]
  /\ UNCHANGED <<env, prov, promises, cleanups, exited, clock, remote, hist>>

\* downloadFile(): cat answers: catResult.result || ''.
DownloadCatReturn(t, out) ==
  /\ ~exited /\ NoMicrotask /\ Lives(out # "throw")
  /\ calls[t].pc = "dl_cat"
  /\ calls' = [calls EXCEPT ![t] =
                 Finish(calls[t], Plain(IF out = "throw" THEN "" ELSE out))]
  /\ UNCHANGED <<env, prov, promises, cleanups, exited, clock, remote, hist>>

\* deleteFile(): fs.deleteFile answers.
DeleteFileReturn(t, ok) ==
  /\ ~exited /\ NoMicrotask /\ Lives(ok)
  /\ calls[t].pc = "del_file"
  /\ calls' = [calls EXCEPT ![t] =
                 Finish(calls[t], Plain(IF ok THEN "Deleted f" ELSE "Error deleting f"))]
  /\ UNCHANGED <<env, prov, promises, cleanups, exited, clock, remote, hist>>

\* saveAddedFile(), lines 1102-1110: fs.createFolder answers; its error is
\* swallowed and fs.uploadFile follows.
AddFolderReturn(t, ok) ==
  /\ ~exited /\ NoMicrotask /\ Lives(ok)
  /\ calls[t].pc = "add_folder"
  /\ calls' = [calls EXCEPT ![t] =
                 IF sandbox # 0 THEN [calls[t] EXCEPT !.pc = "add_upload"]
                 ELSE Finish(calls[t], PatchError(calls[t]))]
  /\ UNCHANGED <<env, prov, promises, cleanups, exited, clock, remote, hist>>

\* saveAddedFile(), lines 1113-1118: fs.uploadFile answers; the verification
\* follows.
AddUploadReturn(t, ok) ==
  /\ ~exited /\ NoMicrotask /\ Lives(ok)
  /\ calls[t].pc = "add_upload"
  /\ calls' = [calls EXCEPT ![t] =
                 IF ok /\ sandbox # 0 THEN [calls[t] EXCEPT !.pc = "add_verify"]
                 ELSE Finish(calls[t], PatchError(calls[t]))]
  /\ UNCHANGED <<env, prov, promises, cleanups, exited, clock, remote, hist>>

\* saveAddedFile(), lines 1118-1137: the verification answers; a file that
\* is missing is written once more with echo.
AddVerifyReturn(t, out) ==
  /\ ~exited /\ NoMicrotask /\ Lives(out # "throw")
  /\ calls[t].pc = "add_verify"
  /\ calls' = [calls EXCEPT ![t] =
                 IF out = "exists" THEN Finish(calls[t], Plain("Created f"))
                 ELSE IF out = "missing" /\ sandbox # 0
                      THEN [calls[t] EXCEPT !.pc = "add_echo"]
                      ELSE Finish(calls[t], PatchError(calls[t]))]
  /\ UNCHANGED <<env, prov, promises, cleanups, exited, clock, remote, hist>>

\* saveAddedFile(), lines 1134-1144: the echo command answers.
AddEchoReturn(t, ok) ==
  /\ ~exited /\ NoMicrotask /\ Lives(ok)
  /\ calls[t].pc = "add_echo"
  /\ calls' = [calls EXCEPT ![t] =
                 IF ok THEN Finish(calls[t], Plain("Created f (using echo fallback)"))
                 ELSE Finish(calls[t], PatchError(calls[t]))]
  /\ UNCHANGED <<env, prov, promises, cleanups, exited, clock, remote, hist>>

----------------------------------------------------------------------------
\* Calling an operation

\* What an operation does once the provider is ready.
Begin(t, c) ==
  CASE c.op = "exec" ->
         /\ calls' = [calls EXCEPT ![t] = PreFlight(c)]
         /\ UNCHANGED pathMapping
    [] c.op = "uploadFile" -> UploadBegin(t, c)
    [] c.op = "downloadFile" -> DownloadBegin(t, c)
    [] c.op = "applyPatch" -> PatchBegin(t, c)
    [] OTHER ->
         /\ calls' = [calls EXCEPT ![t] = Finish(c, Plain(""))]
         /\ UNCHANGED pathMapping

\* An operation is called: if (!this.initialized || !this.sandbox) await
\* this.initialize().
Call(t, op, cmd, wd) ==
  /\ MayCall(t)
  /\ LET c == [IdleCall EXCEPT !.op = op, !.cmd = cmd, !.wd = wd] IN
     IF ~initialized \/ sandbox = 0
     THEN /\ initialize
          /\ calls' = [calls EXCEPT ![t] = [c EXCEPT !.pc = "init1", !.p = Awaited]]
          /\ UNCHANGED pathMapping
     ELSE /\ noInitialize
          /\ Begin(t, [c EXCEPT !.ws = sandbox])
  /\ settled' = FALSE
  /\ UNCHANGED <<env, sandbox, initialized, rootDir, sessionMap, cleanups, exited,
                 clock, nCreated, removed, removeArgs, submitted, csIssued, csDone>>

\* The initialize() awaited at the start of an operation has settled.  It is
\* awaited outside every try block, so its error rejects the promise of the
\* operation.
Init1(t) ==
  /\ ~exited /\ calls[t].pc = "init1" /\ Settled(calls[t].p)
  /\ LET c == [calls[t] EXCEPT !.p = 0] IN
     IF Failed(calls[t].p)
     THEN /\ calls' = [calls EXCEPT ![t] = Finish(c, Rejected(promises[calls[t].p].err))]
          /\ UNCHANGED pathMapping
     ELSE Begin(t, [c EXCEPT !.ws = sandbox])
  /\ promises' = Collect(promises, initPromise, calls')
  /\ UNCHANGED <<env, daytona, sandbox, initialized, rootDir, initPromise,
                 sessionMap, cleanups, exited, clock, remote, hist>>

----------------------------------------------------------------------------
\* cleanup() and the exit handlers

\* A clear() that leaves the map as it is.
clearNothing(m) == m
\* Map.prototype.clear()
clear(m) == << >>

\* cleanup(): if (!this.initialized || !this.daytona || !this.sandbox) return
CleanupSkips == ~initialized \/ ~daytona \/ sandbox = 0

\* One more call of client.remove with argument a.
RemoveCalled(a) ==
  IF a \in DOMAIN removeArgs THEN [removeArgs EXCEPT ![a] = @ + 1]
  ELSE (a :> 1) @@ removeArgs

\* cleanup() has returned; a handler goes on to process.exit.
Returned(r) ==
  [IdleCleanup EXCEPT !.pc = IF r.handler THEN "exiting" ELSE "done",
                      !.handler = r.handler]

\* Nothing but cleanup c is in flight.
Quiet(c) ==
  /\ InFlight = {}
  /\ \A x \in Cleanups \ {c} : cleanups[x].pc \in {"idle", "done"}
  /\ \A p \in Promises : promises[p].st \notin {"create", "rootdir"}

\* A deleteSession that throws ends the loop of cleanup().
NextEntryStops(idx, ok) == IF ok THEN idx + 1 ELSE Len(sessionMap) + 1
\* cleanup(), lines 1191-1203: the entry of sessionMap the loop goes on with
\* after deleteSession of entry idx has answered or has thrown.
NextEntry(idx, ok) == idx + 1

\* cleanup(), lines 1190-1205: the loop over sessionMap from entry number
\* from on, up to the next RPC.  With the recording on, the cleanup keeps the
\* session ids it has called deleteSession with.  The iterator of a Map is live.  With the
\* sandbox gone every deleteSession throws a TypeError, which the loop
\* swallows, and client.remove is called with null and fails.
CleanupLoop(c, r, from) ==
  IF sandbox # 0 /\ from <= Len(sessionMap)
  THEN /\ cleanups' = [cleanups EXCEPT ![c] =
                         [r EXCEPT !.pc = "del_session", !.idx = from,
                                   !.sid = sessionMap[from].id, !.arg = sandbox,
                                   !.tried = IF recording
                                             THEN Append(@, sessionMap[from].id)
                                             ELSE @]]
       /\ settled' = FALSE
       /\ UNCHANGED <<removeArgs, submitted, csIssued, csDone>>
  ELSE /\ removeArgs' = RemoveCalled(sandbox)
       /\ IF sandbox = 0
          THEN /\ cleanups' = [cleanups EXCEPT ![c] = Returned(r)]
               /\ settled' = (Quiet(c) /\ ~r.handler)
               /\ submitted' = {}
               /\ csIssued' = [k \in SessionKeys |-> 0]
               /\ csDone' = {}
          ELSE /\ cleanups' = [cleanups EXCEPT ![c] =
                                 [r EXCEPT !.pc = "remove", !.idx = 0, !.sid = NoSid,
                                           !.arg = sandbox,
                                           !.live = sandbox \notin removed]]
               /\ settled' = FALSE
               /\ UNCHANGED <<submitted, csIssued, csDone>>

\* cleanup() is called, by a caller or by the handler of SIGINT or SIGTERM.
CleanupCall(c, handler) ==
  /\ ~exited /\ cleanups[c].pc = "idle"
  /\ IF c = 1 THEN TRUE ELSE cleanups[c - 1].pc # "idle"
  /\ LET r == [IdleCleanup EXCEPT !.handler = handler] IN
     IF CleanupSkips
     THEN /\ cleanups' = [cleanups EXCEPT ![c] = Returned(r)]
          /\ UNCHANGED <<removeArgs, settled, submitted, csIssued, csDone>>
     ELSE CleanupLoop(c, r, 1)
  /\ UNCHANGED <<env, prov, promises, calls, exited, clock, createCalls,
                 nCreated, removed>>

\* cleanup(): deleteSession answers; its error is swallowed.
DeleteSessionReturn(c, ok) ==
  /\ ~exited /\ NoMicrotask
  /\ cleanups[c].pc = "del_session"
  /\ CleanupLoop(c, [cleanups[c] EXCEPT !.swallowed = IF recording THEN @ \/ ~ok ELSE @],
                 NextEntry(cleanups[c].idx, ok))
  /\ UNCHANGED <<env, prov, promises, calls, exited, clock, createCalls,
                 nCreated, removed>>

\* cleanup(), lines 1205-1222: client.remove answers.  Only when it succeeds
\* is the state cleared; this.daytona is kept.  Clearing a Map leaves a live
\* iterator in front of every entry that is added later.
RemoveReturn(c, ok) ==
  /\ ~exited /\ NoMicrotask
  /\ cleanups[c].pc = "remove"
  /\ ok => cleanups[c].live
  /\ IF ok
     THEN /\ removed' = removed \cup {cleanups[c].arg}
          /\ sandbox' = 0
          /\ initialized' = FALSE
          /\ pathMapping' = clear(pathMapping)
          /\ rootDir' = "null"
          /\ initPromise' = 0
          /\ sessionMap' = clear(sessionMap)
          /\ promises' = Collect(promises, 0, calls)
          /\ cleanups' = [x \in Cleanups |->
                            IF x = c THEN Returned(cleanups[c])
                            ELSE [cleanups[x] EXCEPT !.idx = 0]]
     ELSE /\ cleanups' = [cleanups EXCEPT ![c] = Returned(cleanups[c])]
          /\ UNCHANGED <<removed, sandbox, initialized, pathMapping, rootDir,
                         initPromise, sessionMap, promises>>
  /\ settled' = (Quiet(c) /\ ~cleanups[c].handler)
  /\ submitted' = {}
  /\ csIssued' = [k \in SessionKeys |-> 0]
  /\ csDone' = {}
  /\ UNCHANGED <<env, daytona, calls, exited, clock, createCalls, nCreated,
                 removeArgs>>

\* The 'exit' event runs the handler once more: cleanup() runs up to its
\* first await and the process is gone before any answer arrives.  With no
\* session to delete that first RPC is client.remove.  Nothing of the process
\* is left afterwards; what it did to the remote stays.
ExitEvent ==
  /\ removeArgs' = IF ~CleanupSkips /\ Len(sessionMap) = 0 THEN RemoveCalled(sandbox)
                   ELSE removeArgs
  /\ exited' = TRUE
  /\ daytona' = FALSE
  /\ sandbox' = 0
  /\ initialized' = FALSE
  /\ rootDir' = "null"
  /\ initPromise' = 0
  /\ pathMapping' = << >>
  /\ sessionMap' = << >>
  /\ promises' = [p \in Promises |-> FreePromise]
  /\ calls' = [t \in Calls |-> IdleCall]
  /\ cleanups' = [c \in Cleanups |-> IdleCleanup]
  /\ clock' = 0
  /\ settled' = FALSE
  /\ submitted' = {}
  /\ csIssued' = [k \in SessionKeys |-> 0]
  /\ csDone' = {}
  /\ UNCHANGED <<env, createCalls, nCreated, removed>>

\* registerExitHandlers(): the handler of a signal calls process.exit(0) in
\* its finally block.
ProcessExit(c) ==
  /\ ~exited /\ cleanups[c].pc = "exiting"
  /\ ExitEvent

\* The event loop has nothing left to do and the process exits.
NormalExit ==
  /\ ~exited /\ NoMicrotask /\ Quiet(0)
  /\ ExitEvent

----------------------------------------------------------------------------
\* One exec, by the text of its command, and one mapPath
\*
\* The provider is in use: two exec calls, one without a working directory
\* and one in /w, have initialized it and have returned.  The next exec finds
\* the session of its key and goes from the preparation of its command
\* straight to executeSessionCommand.

\* exec(), lines 283-300: the working directory is mapped and the command is
\* prepared.
CmdPrepare ==
  /\ execRun.stage = "called"
  /\ LET workdir == execRun.workdir
         remoteWorkdir == IF workdir # << >> THEN mapPath(workdir)[workdir]
                          ELSE Chars(rootDir)
     IN /\ pathMapping' = IF workdir # << >> THEN mapPath(workdir) ELSE pathMapping
        /\ execRun' = [execRun EXCEPT !.stage = "prepared",
                                      !.prepared = prepareCommand(execRun.cmd),
                                      !.commandStr = commandLine(execRun.cmd, remoteWorkdir)]
  /\ UNCHANGED <<apiKey, recording, pathArg, mapped, patchRun, parseRun, lost, daytona, sandbox, initialized,
                 rootDir, initPromise, sessionMap, promises, calls, cleanups, exited,
                 clock, remote, hist>>

\* exec(), lines 340-349: executeSessionCommand is called with the command.
CmdSend ==
  /\ execRun.stage = "prepared"
  /\ execRun' = [execRun EXCEPT !.stage = "sent", !.rpc = "executeSessionCommand",
                                !.request = execRun.commandStr]
  /\ UNCHANGED <<apiKey, recording, pathArg, mapped, patchRun, parseRun, lost, prov, promises, calls, cleanups,
                 exited, clock, remote, hist>>

\* exec(), lines 346-380: executeSessionCommand answers r, with output or
\* without a command id, so that no logs are fetched, to a command string
\* that isWebServerCommand does not accept.
CmdAnswer(r) ==
  /\ execRun.stage = "sent"
  /\ r.output # "" \/ ~r.cmdId
  /\ ~isWebServerCommand(execRun.commandStr)
  /\ execRun' = [execRun EXCEPT !.stage = "done",
                                !.res = processCommandResponse(r.output, r)]
  /\ UNCHANGED <<apiKey, recording, pathArg, mapped, patchRun, parseRun, lost, prov, promises, calls, cleanups,
                 exited, clock, remote, hist>>

\* addPreviewLink(): the banner of the preview link after the output.
addPreviewLink(stdout) ==
  IF stdout = "" THEN "\n\n====== PREVIEW LINK ======"
  ELSE "out\n\n====== PREVIEW LINK ======"

\* addLocalAccessInfo(): the banner of the local address after the output.
addLocalAccessInfo(stdout) ==
  IF stdout = "" THEN "\n\n====== LOCAL ACCESS ======"
  ELSE "out\n\n====== LOCAL ACCESS ======"

\* exec(), lines 346-380, and processCommandResponse(), lines 705-720:
\* executeSessionCommand answers r to a command string that
\* isWebServerCommand accepts.  detectServerPort always finds a port, the
\* default 8000 at last, so the banner is added: that of the preview link, or
\* that of the local address when getPreviewLink throws.
CmdAnswerWebServer(r, link) ==
  /\ execRun.stage = "sent"
  /\ r.output # "" \/ ~r.cmdId
  /\ isWebServerCommand(execRun.commandStr)
  /\ execRun' = [execRun EXCEPT
                   !.stage = "done",
                   !.res = IF link
                           THEN Value(addPreviewLink(r.output), "PREVIEW LINK: url", r.exitCode)
                           ELSE Value(addLocalAccessInfo(r.output),
                                      "LOCAL ACCESS: http://127.0.0.1:8000/", r.exitCode)]
  /\ UNCHANGED <<apiKey, recording, pathArg, mapped, patchRun, parseRun, lost, prov, promises, calls, cleanups,
                 exited, clock, remote, hist>>

\* exec(), lines 381-391: executeSessionCommand throws.
CmdThrows(m) ==
  /\ execRun.stage = "sent"
  /\ execRun' = [execRun EXCEPT !.stage = "done", !.res = ExecCatch(m)]
  /\ UNCHANGED <<apiKey, recording, pathArg, mapped, patchRun, parseRun, lost, prov, promises, calls, cleanups,
                 exited, clock, remote, hist>>

\* The paths mapPath is called with: the path of its first call, again and
\* again, and every path it has returned.
MapInputs == {pathArg} \cup {mapped[i][2] : i \in 1..Len(mapped)}

\* mapPath(h) is called and returns.
MapPathCall(h) ==
  /\ ~mapPathThrows
  /\ Len(mapped) < MaxMapCalls
  /\ pathMapping' = mapPath(h)
  /\ mapped' = Append(mapped, <<h, mapPath(h)[h]>>)
  /\ UNCHANGED <<apiKey, recording, execRun, pathArg, patchRun, parseRun, lost,
                 daytona, sandbox, initialized, rootDir, initPromise, sessionMap, promises, calls,
                 cleanups, exited, clock, remote, hist>>

----------------------------------------------------------------------------
\* One applyPatch, by the text of its patch
\*
\* The provider is in use.  The text of the patch is a sequence of atoms with
\* "\n" between its lines; the output of the patch is the list of its report
\* lines.

BeginPatch == <<"***", " ", "Begin", " ", "Patch">>
EndPatch == <<"***", " ", "End", " ", "Patch">>
AddFilePrefix == <<"***", " ", "Add", " ", "File", ":", " ">>
EndOfFile == <<"***", " ", "End", " ", "of", " ", "File">>
UpdateFilePrefix == <<"***", " ", "Update", " ", "File", ":">>
DeleteFileColon == <<"***", " ", "Delete", " ", "File", ":">>
DeleteFilePrefix == DeleteFileColon \o <<" ">>

Reverse(str) == [k \in 1..Len(str) |-> str[Len(str) + 1 - k]]

\* String.prototype.trim
trim(str) ==
  LET rest == Drop(str, LeadingIn(str, {" ", "\n"}))
  IN SubSeq(rest, 1, Len(rest) - LeadingIn(Reverse(rest), {" ", "\n"}))

\* path.dirname, for a path that does not end with a slash.
dirname(p) ==
  LET slashes == Occurrences(p, <<"/">>)
      last == CHOOSE k \in slashes : \A m \in slashes : m <= k
  IN IF slashes = {} THEN Dot
     ELSE IF last = 1 THEN <<"/">>
     ELSE SubSeq(p, 1, last - 1)

\* saveAddedFile(), line 1133: what the shell writes for echo '<content>' >
\* "<path>", the content and a newline.
echoWrites(content) == content \o <<"\n">>

\* String(err) of the error a remote file operation throws.
RemoteError == "Error: failed"

\* The path in the sandbox of the file that is being added or deleted.
RemotePath(s) == mapPath(s.filePath)[s.filePath]

\* applyPatch(), lines 1014-1018
patchDone(s) ==
  [s EXCEPT !.stage = "done",
            !.res = Value(IF s.successOutput = << >>
                          THEN << <<"Patch applied successfully">> >>
                          ELSE s.successOutput, "", 0)]

\* A processPatches() that does not know the Update File line.
EndsBlockNoUpdate(line) ==
  StartsWith(line, EndOfFile) \/ StartsWith(line, DeleteFileColon)
\* processPatches(), line 1060: the lines that end the file that is being added.
EndsBlock(line) ==
  \/ StartsWith(line, EndOfFile)
  \/ StartsWith(line, UpdateFilePrefix)
  \/ StartsWith(line, DeleteFileColon)

RECURSIVE processPatches(_)
RECURSIVE afterSave(_, _)
RECURSIVE afterDelete(_, _)

\* saveAddedFile(), lines 1092-1104, called from line from of processPatches:
\* the path is mapped and fs.createFolder is called.
saveAddedFile(s, from) ==
  LET call == [s EXCEPT !.filePath = s.currentFilePath,
                        !.content = s.currentFileContent, !.from = from]
  IN IF mapPathThrows
     THEN afterSave(call, Append(s.successOutput,
                                 <<"Error creating", s.currentFilePath,
                                   "Error: Daytona sandbox not initialized">>))
     ELSE [call EXCEPT !.stage = "folder",
                       !.ops = Append(@, <<"createFolder", dirname(RemotePath(call))>>)]

\* deleteFile(), lines 1154-1158: the path is mapped and fs.deleteFile is
\* called.
deleteFile(s) ==
  LET call == [s EXCEPT !.filePath = Drop(s.lines[s.i], Len(DeleteFilePrefix)),
                        !.from = "delete"]
  IN IF mapPathThrows
     THEN afterDelete(call, Append(s.successOutput,
                                   <<"Error deleting", call.filePath,
                                     "Error: Daytona sandbox not initialized">>))
     ELSE [call EXCEPT !.stage = "delete",
                       !.ops = Append(@, <<"deleteFile", RemotePath(call)>>)]

\* processPatches(), lines 1069-1073: the line that ended a file may delete
\* one.
afterEnd(s) ==
  IF StartsWith(s.lines[s.i], DeleteFilePrefix) THEN deleteFile(s)
  ELSE processPatches([s EXCEPT !.i = @ + 1])

\* processPatches(), lines 1044-1082, from line s.i of the patch on, up to the
\* next remote call or to its end.
processPatches(s) ==
  IF s.i > Len(s.lines) - 1
  THEN IF s.addingFile /\ s.currentFilePath # << >>
       THEN saveAddedFile(s, "last")
       ELSE patchDone(s)
  ELSE LET line == s.lines[s.i]
       IN IF StartsWith(line, AddFilePrefix)
          THEN IF s.addingFile /\ s.currentFilePath # << >>
               THEN saveAddedFile(s, "add")
               ELSE processPatches([s EXCEPT
                      !.currentFilePath = Drop(line, Len(AddFilePrefix)),
                      !.addingFile = TRUE, !.i = @ + 1])
          ELSE IF s.addingFile /\ StartsWith(line, <<"+">>)
          THEN processPatches([s EXCEPT
                 !.currentFileContent = @ \o Drop(line, 1) \o <<"\n">>, !.i = @ + 1])
          ELSE IF EndsBlock(line)
          THEN IF s.addingFile /\ s.currentFilePath # << >>
               THEN saveAddedFile(s, "end")
               ELSE afterEnd(s)
          ELSE processPatches([s EXCEPT !.i = @ + 1])

\* processPatches() after saveAddedFile() has returned currentOutput: line
\* 1051 drops it, lines 1063 and 1079 keep it.
afterSave(s, currentOutput) ==
  IF s.from = "add"
  THEN processPatches([s EXCEPT
         !.currentFileContent = << >>,
         !.currentFilePath = Drop(s.lines[s.i], Len(AddFilePrefix)),
         !.addingFile = TRUE, !.i = @ + 1])
  ELSE IF s.from = "end"
  THEN afterEnd([s EXCEPT !.successOutput = currentOutput,
                          !.currentFilePath = << >>, !.currentFileContent = << >>,
                          !.addingFile = FALSE])
  ELSE patchDone([s EXCEPT !.successOutput = currentOutput])

\* processPatches() after deleteFile() has returned currentOutput, line 1072.
afterDelete(s, currentOutput) ==
  processPatches([s EXCEPT !.successOutput = currentOutput, !.i = @ + 1])

\* The patch goes on as s: a path that was mapped is in the cache.
PatchGoesOn(s) ==
  /\ patchRun' = s
  /\ pathMapping' = IF s.stage \in {"folder", "delete"} THEN mapPath(s.filePath)
                    ELSE pathMapping
  /\ UNCHANGED <<apiKey, recording, execRun, pathArg, mapped, parseRun, lost,
                 daytona, sandbox, initialized, rootDir, initPromise, sessionMap,
                 promises, calls, cleanups, exited, clock, remote, hist>>

\* applyPatch(), lines 1005-1012: the text is split into lines and its first
\* and last line are looked at.
PatchCall ==
  /\ patchRun.stage = "called"
  /\ LET lines == Split(trim(patchRun.text), "\n")
     IN IF ~StartsWith(lines[1], BeginPatch) \/ lines[Len(lines)] # EndPatch
        THEN PatchGoesOn([patchRun EXCEPT !.stage = "done", !.lines = lines,
                                          !.res = PatchCatch("Invalid patch format")])
        ELSE PatchGoesOn(processPatches([patchRun EXCEPT !.lines = lines, !.i = 2]))

\* saveAddedFile(), lines 1103-1114: fs.createFolder answers or throws, which
\* is ignored, and fs.uploadFile is called.
PatchFolderAnswer(ok) ==
  /\ patchRun.stage = "folder"
  /\ PatchGoesOn([patchRun EXCEPT
       !.stage = "upload",
       !.ops = Append(@, <<"uploadFile", RemotePath(patchRun), patchRun.content>>)])

\* saveAddedFile(), line 1142
ErrorCreating(s) ==
  afterSave([s EXCEPT !.failed = Append(@, <<"creating", s.filePath>>)],
            Append(s.successOutput, <<"Error creating", s.filePath, RemoteError>>))

\* saveAddedFile(), lines 1114-1118: fs.uploadFile answers and the file is
\* looked for, or it throws.
PatchUploadAnswer(ok) ==
  /\ patchRun.stage = "upload"
  /\ IF ok
     THEN PatchGoesOn([patchRun EXCEPT
            !.stage = "verify",
            !.written = Append(@, <<RemotePath(patchRun), patchRun.content>>),
            !.ops = Append(@, <<"test -f", RemotePath(patchRun)>>)])
     ELSE PatchGoesOn(ErrorCreating(patchRun))

\* saveAddedFile(), lines 1118-1134: the file is there, or it is missing and
\* echo writes it, or the test throws.
PatchVerifyAnswer(result) ==
  /\ patchRun.stage = "verify"
  /\ IF result = "exists"
     THEN PatchGoesOn(afterSave(patchRun, Append(patchRun.successOutput,
                                                 <<"Created", patchRun.filePath>>)))
     ELSE IF result = "missing"
     THEN PatchGoesOn([patchRun EXCEPT
            !.stage = "echo",
            !.ops = Append(@, <<"echo", RemotePath(patchRun), patchRun.content>>)])
     ELSE PatchGoesOn(ErrorCreating(patchRun))

\* saveAddedFile(), lines 1134-1136: echo answers or throws.
PatchEchoAnswer(ok) ==
  /\ patchRun.stage = "echo"
  /\ IF ok
     THEN PatchGoesOn(afterSave(
            [patchRun EXCEPT !.written = Append(@, <<RemotePath(patchRun),
                                                     echoWrites(patchRun.content)>>)],
            Append(patchRun.successOutput,
                   <<"Created", patchRun.filePath, "(using echo fallback)">>)))
     ELSE PatchGoesOn(ErrorCreating(patchRun))

\* deleteFile(), lines 1158-1171: fs.deleteFile answers or throws.
PatchDeleteAnswer(ok) ==
  /\ patchRun.stage = "delete"
  /\ IF ok
     THEN PatchGoesOn(afterDelete(patchRun,
            Append(patchRun.successOutput, <<"Deleted", patchRun.filePath>>)))
     ELSE PatchGoesOn(afterDelete(
            [patchRun EXCEPT !.failed = Append(@, <<"deleting", patchRun.filePath>>)],
            Append(patchRun.successOutput,
                   <<"Error deleting", patchRun.filePath, RemoteError>>)))

----------------------------------------------------------------------------
\* One parseToolCallOutput, by the text of its argument
\*
\* Here a string is the sequence of its characters, so that its length and
\* its first characters are those of the code.

\* Most pieces the text of an output is made of.
MaxChunks == 3
\* parseToolCallOutput(), line 55: the characters of the input that are shown.
Shown == 100

BeginPatchText == <<"*", "*", "*", " ", "B", "e", "g", "i", "n", " ", "P", "a", "t", "c", "h">>
AddFileText == <<"*", "*", "*", " ", "A", "d", "d", " ", "F", "i", "l", "e", ":">>
CreatedText == <<"C", "r", "e", "a", "t", "e", "d", " ">>
FailedToParse ==
  <<"F", "a", "i", "l", "e", "d", " ", "t", "o", " ", "p", "a", "r", "s", "e", " ", "o", "u", "t", "p", "u", "t", ":", " ">>
EmptyOrInvalid == <<"E", "m", "p", "t", "y", " ", "o", "r", " ", "i", "n", "v", "a", "l", "i", "d", " ", "o", "u", "t", "p", "u", "t">>
Ellipsis == <<".", ".", ".">>
EmptyObject == <<"{", "}">>
Filler == [k \in 1..Shown |-> "z"]

\* The pieces of an output: the three marks of a patch, a word, a JSON
\* document and Shown characters of text.
Chunks == {BeginPatchText, AddFileText, CreatedText, <<"e", "r", "r">>, EmptyObject, Filler}
Outputs == {Join(parts, << >>) : parts \in UNION {[1..n -> Chunks] : n \in 0..MaxChunks}}

\* JSON.parse of a text of Outputs: of these texts the empty object alone is
\* a JSON document, and every other one, the empty text too, is a syntax
\* error.
ValidJSON(str) == str = EmptyObject

\* String.prototype.substring(0, n)
substring(str, n) == SubSeq(str, 1, IF Len(str) < n THEN Len(str) ELSE n)

\* parseToolCallOutput(), lines 14-62.  The output and the exit_code of the
\* empty object are those of a document without output and metadata.
parseToolCallOutput(toolCallOutput) ==
  IF toolCallOutput = << >>
  THEN [output |-> EmptyOrInvalid, exit_code |-> "1"]
  ELSE IF ValidJSON(toolCallOutput)
  THEN [output |-> << >>, exit_code |-> "undefined"]
  ELSE IF Includes(toolCallOutput, BeginPatchText)
  THEN [output |-> toolCallOutput, exit_code |-> "0"]
  ELSE IF Includes(toolCallOutput, AddFileText)
  THEN [output |-> toolCallOutput, exit_code |-> "0"]
  ELSE IF Includes(toolCallOutput, CreatedText)
  THEN [output |-> toolCallOutput, exit_code |-> "0"]
  ELSE [output |-> FailedToParse \o substring(toolCallOutput, Shown)
                     \o (IF Len(toolCallOutput) > Shown THEN Ellipsis ELSE << >>),
        exit_code |-> "1"]

\* parseToolCallOutput is called and returns.
ParseCall ==
  /\ parseRun.stage = "called"
  /\ LET r == parseToolCallOutput(parseRun.toolCallOutput)
     IN parseRun' = [parseRun EXCEPT !.stage = "done", !.output = r.output,
                                     !.exit_code = r.exit_code]
  /\ UNCHANGED <<apiKey, recording, execRun, pathArg, mapped, patchRun, lost, prov,
                 promises, calls, cleanups, exited, clock, remote, hist>>

----------------------------------------------------------------------------
\* Specifications

\* The provider as getInstance() makes it, before any call.
Constructed ==
  /\ apiKey \in ApiKeys
  /\ execRun = NoRun
  /\ pathArg = << >>
  /\ mapped = << >>
  /\ patchRun = NoPatch
  /\ parseRun = NoParse
  /\ lost = "no"
  /\ daytona = FALSE
  /\ sandbox = 0
  /\ initialized = FALSE
  /\ rootDir = "null"
  /\ initPromise = 0
  /\ pathMapping = << >>
  /\ sessionMap = << >>
  /\ promises = [p \in Promises |-> FreePromise]
  /\ calls = [t \in Calls |-> IdleCall]
  /\ cleanups = [c \in Cleanups |-> IdleCleanup]
  /\ exited = FALSE
  /\ clock = 0
  /\ createCalls = 0
  /\ nCreated = 0
  /\ removed = {}
  /\ removeArgs = << >>
  /\ settled = FALSE
  /\ submitted = {}
  /\ csIssued = [k \in SessionKeys |-> 0]
  /\ csDone = {}

\* The provider in use with the root directory root, after an exec without a
\* working directory and an exec in /w have returned.
InUseAt(root) ==
  /\ apiKey = "valid"
  /\ recording = FALSE
  /\ lost = "no"
  /\ daytona = TRUE
  /\ sandbox = 1
  /\ initialized = TRUE
  /\ rootDir = root
  /\ initPromise = 1
  /\ pathMapping = (<<"/", "w">> :> Chars(root) \o <<"/", "w">>)
  /\ sessionMap = << [key |-> "default", id |-> <<"default", 1>>],
                     [key |-> "/w", id |-> <<"-w", 2>>] >>
  /\ promises = [p \in Promises |->
                   IF p = 1 THEN [st |-> "resolved", err |-> ""] ELSE FreePromise]
  /\ calls = [t \in Calls |-> [IdleCall EXCEPT !.pc = "returned"]]
  /\ cleanups = [c \in Cleanups |-> IdleCleanup]
  /\ exited = FALSE
  /\ clock = 2
  /\ createCalls = 1
  /\ nCreated = 1
  /\ removed = {}
  /\ removeArgs = << >>
  /\ settled = FALSE
  /\ submitted = {}
  /\ csIssued = [k \in SessionKeys |-> 0]
  /\ csDone = {}

InUse == InUseAt("/home/daytona")

\* exec is called with any argv and working directory.
InitCommands ==
  /\ InUse
  /\ pathArg = << >>
  /\ mapped = << >>
  /\ patchRun = NoPatch
  /\ parseRun = NoParse
  /\ execRun \in {[NoRun EXCEPT !.stage = "called", !.cmd = cmd, !.workdir = workdir] :
                    cmd \in Argvs, workdir \in Workdirs}

NextCommands ==
  \/ CmdPrepare
  \/ CmdSend
  \/ \E r \in Responses : CmdAnswer(r)
  \/ \E r \in Responses, link \in BOOLEAN : CmdAnswerWebServer(r, link)
  \/ \E m \in ErrMsgs : CmdThrows(m)

SpecCommands == InitCommands /\ [][NextCommands]_vars

\* The lines a patch text starts with, has in between and ends with.
FirstLines == {BeginPatch, BeginPatch \o <<" ", "x">>, <<"+", "a">>}
BodyLines ==
  { AddFilePrefix \o <<"f">>, AddFilePrefix \o <<"g">>, AddFilePrefix,
    <<"+", "a">>, <<"+", "b">>, EndOfFile, DeleteFilePrefix \o <<"f">>,
    UpdateFilePrefix \o <<" ", "v">> }
LastLines == {EndPatch, EndPatch \o <<"\n">>, EndOfFile}
PatchTexts ==
  { Join(<<first>> \o body \o <<last>>, <<"\n">>) :
      first \in FirstLines, last \in LastLines,
      body \in UNION {[1..n -> BodyLines] : n \in 0..MaxBody} }

\* applyPatch is called with any patch text.
InitPatches ==
  /\ InUse
  /\ execRun = NoRun
  /\ pathArg = << >>
  /\ mapped = << >>
  /\ parseRun = NoParse
  /\ patchRun \in {[NoPatch EXCEPT !.stage = "called", !.text = text] : text \in PatchTexts}

NextPatches ==
  \/ PatchCall
  \/ \E ok \in BOOLEAN : PatchFolderAnswer(ok)
  \/ \E ok \in BOOLEAN : PatchUploadAnswer(ok)
  \/ \E result \in {"exists", "missing", "throw"} : PatchVerifyAnswer(result)
  \/ \E ok \in BOOLEAN : PatchEchoAnswer(ok)
  \/ \E ok \in BOOLEAN : PatchDeleteAnswer(ok)

SpecPatches == InitPatches /\ [][NextPatches]_vars

\* parseToolCallOutput is called with any text of Outputs.
InitParse ==
  /\ InUse
  /\ execRun = NoRun
  /\ pathArg = << >>
  /\ mapped = << >>
  /\ patchRun = NoPatch
  /\ parseRun \in {[NoParse EXCEPT !.stage = "called", !.toolCallOutput = text] :
                     text \in Outputs}

NextParse == ParseCall

SpecParse == InitParse /\ [][NextParse]_vars

\* The paths mapPath is called with: up to MaxSegments segments, relative or
\* absolute.
Paths ==
  {(IF absolute THEN <<"/">> ELSE << >>) \o Join(segs, <<"/">>) :
     absolute \in BOOLEAN, segs \in UNION {[1..n -> Segments] : n \in 0..MaxSegments}}

\* mapPath is called with any path.
InitPaths ==
  /\ \E root \in RootDirs : InUseAt(root)
  /\ execRun = NoRun
  /\ pathArg \in Paths
  /\ mapped = << >>
  /\ patchRun = NoPatch
  /\ parseRun = NoParse

NextPaths == \E h \in MapInputs : MapPathCall(h)

SpecPaths == InitPaths /\ [][NextPaths]_vars

\* What a call returned and where it sent its command is history: it is
\* recorded where the callers are looked at and left out where only the
\* provider is.
Init == Constructed /\ recording = FALSE
InitCallers == Constructed /\ recording = TRUE

InitStep ==
  \E p \in Promises :
    \/ \E out \in {"ok", "null", "throw"} : CreateReturn(p, out)
    \/ \E out \in {"ok", "empty", "throw"} : RootDirReturn(p, out)

CallStep ==
  \E t \in Calls :
    \/ \E cmd \in Cmds, wd \in SessionKeys : Call(t, "exec", cmd, wd)
    \/ Call(t, "initialize", "plain", "default")
    \/ \E patch \in Patches : Call(t, "applyPatch", patch, FilePath)
    \/ Call(t, "uploadFile", "plain", FilePath)
    \/ Call(t, "downloadFile", "plain", FilePath)
    \/ Init1(t)

ExecStep ==
  \E t \in Calls :
    \/ ExecYield(t)
    \/ \E out \in {"exists", "missing", "throw"} : PreFlightReturn(t, out)
    \/ \E ok \in BOOLEAN : CreateSessionReturn(t, ok)
    \/ \E ok \in BOOLEAN : CreateDefaultReturn(t, ok)
    \/ \E m \in ErrMsgs : ExecCmdThrows(t, m)
    \/ \E r \in Responses : ExecCmdReturn(t, r)
    \/ \E out \in {"logs", "throw"} : LogsReturn(t, out)

CleanupStep ==
  \/ \E c \in Cleanups :
       \/ \E handler \in BOOLEAN : CleanupCall(c, handler)
       \/ \E ok \in BOOLEAN : DeleteSessionReturn(c, ok)
       \/ \E ok \in BOOLEAN : RemoveReturn(c, ok)
       \/ ProcessExit(c)
  \/ NormalExit

\* With the recording on, the callers look at what they were returned.
ReturnStep == \E t \in Calls : ReturnToCaller(t)

\* With the recording on, the remote may lose the workspace.
LossStep == WorkspaceLost

\* With the recording on, a caller may cancel an exec it is waiting for.
AbortStep == \E t \in Calls : Abort(t)

\* exec() goes on after it had to initialize again.
ReinitStep == \E t \in Calls : ExecInit2(t)

FileStep ==
  \E t \in Calls :
    \/ \E ok \in BOOLEAN : UploadReturn(t, ok)
    \/ \E out \in {"exists", "missing", "throw"} : VerifyReturn(t, out)
    \/ \E out \in {"exists", "missing", "throw"} : DownloadCheckReturn(t, out)
    \/ \E out \in {"content", "", "throw"} : DownloadCatReturn(t, out)
    \/ \E ok \in BOOLEAN : DeleteFileReturn(t, ok)
    \/ \E ok \in BOOLEAN : AddFolderReturn(t, ok)
    \/ \E ok \in BOOLEAN : AddUploadReturn(t, ok)
    \/ \E out \in {"exists", "missing", "throw"} : AddVerifyReturn(t, out)
    \/ \E ok \in BOOLEAN : AddEchoReturn(t, ok)

\* The life of the provider: calls, cleanups and the exit of the process.
Next == InitStep \/ CallStep \/ ExecStep \/ ReinitStep \/ FileStep \/ CleanupStep

Spec == Init /\ [][Next]_vars

\* The callers alone, with what they are returned: no cleanup() and no exit,
\* so that exec() never has to initialize again.
NextCallers ==
  InitStep \/ CallStep \/ ReturnStep \/ ExecStep \/ AbortStep \/ LossStep \/ FileStep
SpecCallers == InitCallers /\ [][NextCallers]_vars

\* exec and cleanup() alone, with the sessions they create and delete: the
\* commands need no pre-flight, and cleanup() is called by a caller.
InitTeardown == Constructed /\ recording = TRUE /\ apiKey = "valid"

ExecCallStep ==
  \E t \in Calls :
    \/ \E wd \in SessionKeys : Call(t, "exec", "plain", wd)
    \/ Init1(t)
    \/ ExecYield(t)
    \/ ExecInit2(t)
    \/ ReturnToCaller(t)

SessionStep ==
  \E t \in Calls :
    \/ \E ok \in BOOLEAN : CreateSessionReturn(t, ok)
    \/ \E ok \in BOOLEAN : CreateDefaultReturn(t, ok)
    \/ \E m \in ErrMsgs : ExecCmdThrows(t, m)
    \/ \E r \in Responses : ExecCmdReturn(t, r)
    \/ \E out \in {"logs", "throw"} : LogsReturn(t, out)

TeardownStep ==
  \E c \in Cleanups :
    \/ CleanupCall(c, FALSE)
    \/ \E ok \in BOOLEAN : DeleteSessionReturn(c, ok)
    \/ \E ok \in BOOLEAN : RemoveReturn(c, ok)

NextTeardown == InitStep \/ ExecCallStep \/ SessionStep \/ TeardownStep
SpecTeardown == InitTeardown /\ [][NextTeardown]_vars

----------------------------------------------------------------------------
\* Properties

\* Call t got past the initialize() at the start of its operation.
Proceeded(t) ==
  /\ calls[t].pc \notin {"idle", "init1", "returned"}
  /\ calls[t].res.kind # "rejected"

\* C1: with a usable API key, callers of any mix of operations that start
\* while the provider is uninitialized make client.create be called exactly
\* once, and every caller that proceeds does so with the one workspace that
\* call returned.
C1_SingleCreate ==
  /\ createCalls <= 1
  /\ ((\E t \in Calls : calls[t].pc # "idle") /\ validateAPIKey = "") => createCalls = 1
  /\ \A t \in Calls : Proceeded(t) => calls[t].ws = 1 /\ sandbox = 1 /\ nCreated = 1

\* Two callers of different operations started while the provider was
\* uninitialized; one has proceeded and the other is about to.
C1_Witness ==
  /\ createCalls = 1
  /\ Proceeded(1) /\ calls[1].ws = 1
  /\ calls[2].pc = "init1" /\ calls[2].p # 0 /\ promises[calls[2].p].st = "resolved"
  /\ calls[1].op # calls[2].op

\* C2: the promise exec returns is never rejected.
C2_ExecNeverRejects ==
  \A t \in Calls : calls[t].op = "exec" => calls[t].res.kind # "rejected"

\* C3: when executeSessionCommand throws an error with a message m that is
\* not empty, exec returns {stdout: "", stderr: m, exitCode: 1}; for an empty
\* message stderr is the text of the error object.
C3_CatchNonEmpty ==
  \A t \in Calls :
    calls[t].threw =>
      calls[t].res = Value("", IF calls[t].msg = "" THEN "Error" ELSE calls[t].msg, 1)

\* executeSessionCommand threw "Command failed" and exec has returned.
C3_Witness ==
  \E t \in Calls :
    /\ calls[t].op = "exec" /\ calls[t].pc = "done"
    /\ calls[t].threw /\ calls[t].msg = "Command failed"

\* C3 as stated: whatever the message m, exec returns {stdout: "", stderr: m,
\* exitCode: 1}.
C3_CatchAnyMessage ==
  \A t \in Calls : calls[t].threw => calls[t].res = Value("", calls[t].msg, 1)

\* cleanup() c returns in this step; it had passed its guard, since it waited
\* for an RPC.
CleanupReturns(c) ==
  /\ cleanups[c].pc \in {"del_session", "remove"}
  /\ cleanups'[c].pc \in {"done", "exiting"}

\* The provider as the constructor leaves it.
ZeroState ==
  /\ ~daytona /\ sandbox = 0 /\ rootDir = "null" /\ ~initialized
  /\ initPromise = 0 /\ pathMapping = << >> /\ sessionMap = << >>

\* C4: when a cleanup() of an initialized provider returns, every field of
\* the provider is back to its value before initialization.
C4_CleanupResets ==
  [][\A c \in Cleanups : CleanupReturns(c) => ZeroState']_vars

\* C5: a cleanup() called right after a cleanup() has completed, with nothing
\* else in between, returns at once: it issues no RPC and changes nothing.
C5_SecondCleanupIdle ==
  [][\A c \in Cleanups :
       (settled /\ cleanups[c].pc = "idle" /\ cleanups'[c].pc # "idle") =>
          /\ cleanups'[c].pc \in {"done", "exiting"}
          /\ removeArgs' = removeArgs
          /\ prov' = prov]_vars

\* C6: once the process has exited, every workspace client.create returned
\* has been passed to client.remove.
C6_TeardownAtExit ==
  exited => \A w \in 1..nCreated : w \in DOMAIN removeArgs

\* C7: invariant I1, initialized implies a client, a workspace and a root.
C7_I1 ==
  initialized => daytona /\ sandbox # 0 /\ rootDir \notin {"null", ""}

\* C8: invariant I2, while the provider is not initialized sessionMap and
\* pathMapping are empty.
C8_I2 ==
  ~initialized => sessionMap = << >> /\ pathMapping = << >>

\* A cleanup() has removed the workspace and cleared the provider while an
\* exec that had registered a session is suspended on its command.
C8_Witness ==
  /\ ~initialized /\ removed # {}
  /\ \E t \in Calls : calls[t].op = "exec" /\ calls[t].pc = "exec_cmd"
                      /\ calls[t].wd # "default"

\* C9: while the process runs, client.create is only called when every
\* workspace created before has been removed, and a workspace that has not
\* been removed is the one the provider refers to.
C9_OneWorkspace ==
  [][~exited' =>
       /\ createCalls' > createCalls => \A w \in 1..nCreated : w \in removed
       /\ \A w \in 1..nCreated' : w \notin removed' => sandbox' = w]_vars

\* C10: between two cleanups at most one createSession RPC is issued for a
\* session of key k, and all commands of key k go to the same session.
C10_OneSessionPerKey ==
  /\ \A k \in SessionKeys : csIssued[k] <= 1
  /\ \A x \in submitted : \A y \in submitted : x[1] = y[1] => x[2] = y[2]

\* C11: invariant I4, every session id in sessionMap has had its createSession
\* return successfully, and a command is only submitted to a session that
\* was created or to the default session.
C11_I4 ==
  /\ \A x \in submitted : x[2] = defaultSessionId \/ x[2] \in csDone
  /\ \A i \in 1..Len(sessionMap) : sessionMap[i].id \in csDone

\* C12: two exec calls with the same session key never wait for their
\* executeSessionCommand RPC at the same time.
C12_NoPipelining ==
  \A t \in Calls : \A u \in Calls :
    (/\ t # u
     /\ calls[t].op = "exec" /\ calls[u].op = "exec"
     /\ calls[t].wd = calls[u].wd)
    => ~(calls[t].pc = "exec_cmd" /\ calls[u].pc = "exec_cmd")

\* C13: an exec whose cancellation signal fired while it waited for the
\* remote response returns {stdout: "", stderr: "cancelled", exitCode: 1}, and
\* neither cleanup() nor client.remove has been called.
C13_Cancelled ==
  \A t \in Calls :
    calls[t].aborted =>
      /\ calls[t].pc = "done" => calls[t].res = Value("", "cancelled", 1)
      /\ removeArgs = << >>
      /\ \A c \in Cleanups : cleanups[c].pc = "idle"

\* C14: the step in which exec, applyPatch, uploadFile or downloadFile reports
\* a remote failure leaves initialized, the client, the workspace and rootDir
\* as they are and calls neither client.create nor client.remove, and an
\* operation called after it starts at once on the same workspace.
C14_FailureKeepsWorkspace ==
  [][\A t \in Calls :
       /\ (~ReportsFailure(calls[t]) /\ ReportsFailure(calls'[t])) =>
            /\ <<daytona, sandbox, initialized, rootDir>>'
                 = <<daytona, sandbox, initialized, rootDir>>
            /\ <<createCalls, removeArgs>>' = <<createCalls, removeArgs>>
       /\ ReportsFailure(calls[t]) =>
            \A u \in Calls :
              (calls[u].pc = "idle" /\ calls'[u].pc # "idle") =>
                 /\ calls'[u].pc # "init1"
                 /\ calls'[u].ws = calls[t].ws
                 /\ createCalls' = createCalls]_vars

\* An operation has reported a remote failure, and an exec called after it
\* has started on the same workspace without initializing.
C14_Witness ==
  /\ ReportsFailure(calls[1])
  /\ calls[2].op = "exec" /\ calls[2].pc = "yield"
  /\ calls[2].ws = calls[1].ws /\ sandbox = calls[1].ws /\ initialized

\* C15: once an operation has reported the failure that the loss of the
\* workspace caused, the operation called next initializes again: it calls
\* client.create.
C15_ReinitAfterLoss ==
  [][\A u \in Calls :
       (lost = "reported" /\ calls[u].pc = "idle" /\ calls'[u].pc # "idle") =>
          createCalls' = createCalls + 1]_vars

\* C16: an exec with an empty argv submits no command to the remote and
\* returns {stdout: "", stderr: "empty command", exitCode: 1}.
C16_EmptyCommand ==
  (execRun.stage \in {"prepared", "sent", "done"} /\ execRun.cmd = << >>) =>
    /\ execRun.stage # "sent"
    /\ execRun.request = << >>
    /\ execRun.stage = "done" => execRun.res = Value("", "empty command", 1)

\* C17 (P3): for an argv that is not empty and whose arguments are words of
\* letters and digits or options made of dashes and such words, the string
\* submitted to the remote is cd, the remote working directory, && and the
\* arguments joined with single spaces: nothing is wrapped in a shell and no
\* argument is rewritten.
C17_P3 ==
  LET cmd == execRun.cmd
      workdir == execRun.workdir
      remoteWorkdir == IF workdir # << >> THEN pathMapping[workdir] ELSE Chars(rootDir)
      Alphanumeric == {"ls", "echo", "foo", "5", "sleep", "timeout", "python", "c",
                       "flask", "run", "nohup"}
      OnlyAlphanumeric(arg) == arg # << >> /\ \A i \in 1..Len(arg) : arg[i] \in Alphanumeric \cup {"-"}
  IN (execRun.stage \in {"sent", "done"} /\ cmd # << >>
        /\ \A i \in 1..Len(cmd) : OnlyAlphanumeric(cmd[i])) =>
       execRun.request
         = <<"cd", " ">> \o remoteWorkdir \o <<" ", "&", "&", " ">> \o Join(cmd, <<" ">>)

\* C18 (P4): preparing a command that begins with /bin/sh -c and a quote gives
\* the command back unchanged, and preparing the result of a preparation
\* gives that result back unchanged.
C18_P4 ==
  LET s == Join(execRun.cmd, <<" ">>)
  IN execRun.stage \in {"prepared", "sent", "done"} =>
       /\ StartsWith(s, BinShC \o <<" ", "'">>) => execRun.prepared = s
       /\ prepareCommand(<<execRun.prepared>>) = execRun.prepared

\* A command that is already wrapped, and whose text would otherwise be
\* wrapped in a shell, has been prepared and submitted.
C18_Witness ==
  LET s == Join(execRun.cmd, <<" ">>)
  IN /\ execRun.stage = "sent"
     /\ StartsWith(s, BinShC \o <<" ", "'">>)
     /\ needsShellWrapping(s)
     /\ execRun.request = <<"cd", " ">> \o Chars(rootDir) \o <<" ", "&", "&", " ">> \o s

\* C19 (P2): for a simple file name n, which is not absolute and holds neither
\* a slash nor a backslash, and which may be ., .. or the empty string,
\* mapPath(n) is rootDir, a slash and n.
C19_P2 ==
  (/\ pathArg \in DOMAIN pathMapping
   /\ ~isAbsolute(pathArg)
   /\ ~Includes(pathArg, <<"/">>) /\ ~Includes(pathArg, <<"\\">>)) =>
     pathMapping[pathArg] = Chars(rootDir) \o <<"/">> \o pathArg

\* C20 (I5): every value of the path cache begins with rootDir, or is the
\* path it was given unchanged and holds /home/daytona; so neither a relative
\* path with .. segments nor an absolute path that only shares the text of
\* the home directory of the host as a prefix is mapped outside rootDir.
C20_I5 ==
  \A h \in DOMAIN pathMapping :
    LET r == pathMapping[h]
    IN \/ StartsWith(r, Chars(rootDir))
       \/ r = h /\ Includes(h, <<"/", "home", "/", "daytona">>)

\* C21 (P1): mapPath is stable.  Any two calls of mapPath with the same path
\* have returned the same string, and the cache still holds for every path
\* what the call with it returned: no entry has been overwritten with another
\* value.
C21_P1 ==
  /\ \A i \in 1..Len(mapped) : \A j \in 1..Len(mapped) :
       mapped[i][1] = mapped[j][1] => mapped[i][2] = mapped[j][2]
  /\ \A i \in 1..Len(mapped) :
       mapped[i][1] \in DOMAIN pathMapping /\ pathMapping[mapped[i][1]] = mapped[i][2]

\* mapPath has been called with a path, then with the path it returned, which
\* is another one, and then with the first path again.
C21_Witness ==
  /\ Len(mapped) = 3
  /\ mapped[1][1] = pathArg /\ mapped[3][1] = pathArg
  /\ mapped[2][1] = mapped[1][2] /\ mapped[2][1] # pathArg
  /\ mapped[3][2] = mapped[1][2]

\* C22: mapPath is idempotent.  When mapPath is called with a path that an
\* earlier call returned, it returns that path unchanged, whatever root
\* directory the remote has answered with.
C22_Idempotent ==
  \A i \in 1..Len(mapped) : \A j \in 1..Len(mapped) :
    (i < j /\ mapped[j][1] = mapped[i][2]) => mapped[j][2] = mapped[j][1]

\* C23: an absolute path /Users/<username>/<rest> that is not under the home
\* directory of the host is mapped to rootDir/<rest>: the system directory and
\* the user name are both taken away.
C23_UsersStripped ==
  LET parts == Split(pathArg, "/")
      Name(part) == part # << >> /\ part # Dot /\ part # DotDot
  IN (/\ pathArg \in DOMAIN pathMapping
      /\ Len(parts) >= 4
      /\ parts[1] = << >> /\ parts[2] = <<"Users">>
      /\ \A i \in 3..Len(parts) : Name(parts[i])
      /\ ~StartsWith(pathArg, homedir)) =>
       pathMapping[pathArg]
         = Chars(rootDir) \o <<"/">> \o Join(SubSeq(parts, 4, Len(parts)), <<"/">>)

\* C24: applyPatch returns exitCode 1 with the error in stderr and calls no
\* remote file operation when the first line of the patch is not exactly
\* the Begin Patch marker or its last line is not exactly the End Patch marker.
C24_MalformedEnvelope ==
  LET lines == patchRun.lines
  IN (/\ patchRun.stage \notin {"none", "called"}
      /\ lines[1] # BeginPatch \/ lines[Len(lines)] # EndPatch) =>
       /\ patchRun.stage = "done"
       /\ patchRun.ops = << >>
       /\ patchRun.res.exitCode = 1 /\ patchRun.res.stderr # ""

\* C25: applyPatch on a patch with both markers, whose Add File lines all name
\* a file, returns exitCode 0 and an empty stderr whatever fails, and every add and every delete that failed has its
\* line Error creating <path> or Error deleting <path> in stdout.
C25_PerFileErrors ==
  LET lines == patchRun.lines
      stdout == patchRun.res.stdout
  IN (/\ patchRun.stage = "done"
      /\ lines[1] = BeginPatch /\ lines[Len(lines)] = EndPatch
      /\ \A k \in 1..Len(lines) : lines[k] # AddFilePrefix) =>
       /\ patchRun.res.exitCode = 0 /\ patchRun.res.stderr = ""
       /\ \A k \in 1..Len(patchRun.failed) :
            \E j \in 1..Len(stdout) :
              /\ Len(stdout[j]) = 3
              /\ stdout[j][1] = IF patchRun.failed[k][1] = "creating"
                                THEN "Error creating" ELSE "Error deleting"
              /\ stdout[j][2] = patchRun.failed[k][2]

\* C26: the stdout of applyPatch on a patch with both markers, whose Add File
\* lines all name a file, has exactly one report line for every Add File and
\* every Delete File line of the patch, in the order of the patch.
C26_CompleteSummary ==
  LET lines == patchRun.lines
      stdout == patchRun.res.stdout
      IsAdd(line) == StartsWith(line, AddFilePrefix)
      IsDelete(line) == StartsWith(line, DeleteFilePrefix)
      IsOperation(line) == IsAdd(line) \/ IsDelete(line)
      operations == SelectSeq(lines, IsOperation)
      IsReport(line) == Len(line) >= 2
      reports == SelectSeq(stdout, IsReport)
  IN (/\ patchRun.stage = "done"
      /\ lines[1] = BeginPatch /\ lines[Len(lines)] = EndPatch
      /\ \A k \in 1..Len(lines) : lines[k] # AddFilePrefix) =>
       /\ Len(reports) = Len(operations)
       /\ \A k \in 1..Len(reports) :
            IF IsAdd(operations[k])
            THEN /\ reports[k][1] \in {"Created", "Error creating"}
                 /\ reports[k][2] = Drop(operations[k], Len(AddFilePrefix))
            ELSE /\ reports[k][1] \in {"Deleted", "Error deleting"}
                 /\ reports[k][2] = Drop(operations[k], Len(DeleteFilePrefix))

\* C27 (L2): in a patch that has Add File blocks only, each naming a file,
\* whatever is written to the file of a block is the + lines of that block,
\* in order, each without its + and with a newline after it, and nothing of
\* another block.
C27_L2 ==
  LET lines == patchRun.lines
      IsAdd(line) == StartsWith(line, AddFilePrefix)
      IsPlus(line) == StartsWith(line, <<"+">>)
      \* the Add File line of the block line k is in
      BlockOf(k) == CHOOSE b \in 2..k : IsAdd(lines[b]) /\ \A m \in (b + 1)..k : ~IsAdd(lines[m])
      adds == {k \in 2..(Len(lines) - 1) : IsAdd(lines[k])}
      ContentOf(b) ==
        LET plus == [k \in 1..Len(lines) |->
                       IF k > b /\ k < Len(lines) /\ IsPlus(lines[k]) /\ BlockOf(k) = b
                       THEN Drop(lines[k], 1) \o <<"\n">> ELSE << >>]
        IN Join(plus, << >>)
      written == patchRun.written
  IN (/\ patchRun.stage = "done"
      /\ lines[1] = BeginPatch /\ lines[Len(lines)] = EndPatch
      /\ Len(lines) >= 3 /\ IsAdd(lines[2])
      /\ \A k \in 2..(Len(lines) - 1) :
           (IsAdd(lines[k]) /\ lines[k] # AddFilePrefix) \/ IsPlus(lines[k])) =>
       \A k \in 1..Len(written) :
         \E b \in adds :
           /\ written[k][1] = Chars(rootDir) \o <<"/">> \o Drop(lines[b], Len(AddFilePrefix))
           /\ written[k][2] = ContentOf(b)

\* C28: parseToolCallOutput of a text that is no JSON document, not empty
\* and of at most Shown characters, answers exit_code 0 and the text itself
\* only when the text starts with *** Begin Patch, *** Add File: or Created ;
\* of any other such text it answers exit_code 1 and Failed to parse output:
\* followed by at most the first Shown characters of the text.
C28_RawPatchEcho ==
  LET text == parseRun.toolCallOutput
      echo == \/ StartsWith(text, BeginPatchText)
              \/ StartsWith(text, AddFileText)
              \/ StartsWith(text, CreatedText)
  IN (/\ parseRun.stage = "done" /\ ~ValidJSON(text)
      /\ text # << >> /\ Len(text) <= Shown) =>
       IF echo
       THEN parseRun.exit_code = "0" /\ parseRun.output = text
       ELSE /\ parseRun.exit_code = "1"
            /\ \E n \in 0..Shown : parseRun.output = FailedToParse \o substring(text, n)

\* C29: an exec of an argv without a working directory sends its command with the
\* one-shot executeCommand, as its argv joined with single spaces and nothing
\* else, and returns what the remote answers as stdout, stderr and exitCode.
C29_OneShotCommand ==
  (execRun.stage \in {"sent", "done"} /\ execRun.workdir = << >> /\ execRun.cmd # << >>) =>
    /\ execRun.rpc = "executeCommand"
    /\ execRun.request = Join(execRun.cmd, <<" ">>)
    /\ execRun.stage = "done" => execRun.res.kind = "value"

\* C30: the command timeout N rest, rest not empty, is prepared as the shell
\* script that starts rest, sleeps N seconds and kills rest.
C30_TimeoutRewritten ==
  LET cmd == execRun.cmd
      script(rest, n) ==
        InShell(rest \o <<" ", "&", " ", "pid", "=", "$", "!", ";", " ", "sleep", " ">>
                  \o n
                  \o <<";", " ", "kill", " ", "$", "pid", " ", "2", ">", "/", "dev", "/",
                       "null", " ", "|", "|", " ", "true", ";", " ", "wait", " ", "$",
                       "pid", " ", "2", ">", "/", "dev", "/", "null", " ", "|", "|",
                       " ", "true">>)
  IN (/\ execRun.stage \in {"prepared", "sent", "done"}
      /\ Len(cmd) = 3 /\ cmd[1] = <<"timeout">> /\ cmd[2] = <<"5">> /\ cmd[3] # << >>) =>
       execRun.prepared = script(cmd[3], cmd[2])

C32_ConfigError ==
  apiKey # "valid" =>
    /\ createCalls = 0
    /\ ~initialized
    /\ \A t \in Calls :
         calls[t].pc = "done" =>
           calls[t].res.kind = "rejected" /\ calls[t].res.stderr = validateAPIKey

\* C32: with a key of an invalid format, an initialize() and another
\* operation have both been rejected.
C32_Witness ==
  /\ apiKey = "invalid"
  /\ calls[1].pc = "done" /\ calls[1].op = "initialize" /\ calls[1].res.kind = "rejected"
  /\ calls[2].pc = "done" /\ calls[2].op # "initialize" /\ calls[2].res.kind = "rejected"

C34_SystemPrefixDropped ==
  LET parts == SelectSeq(Split(pathArg, "/"), NonEmpty)
      system == {<<"Users">>, <<"usr">>, <<"var">>, <<"Library">>, <<"System">>,
                 <<"Applications">>}
      dropped == CHOOSE n \in 0..Len(parts) :
                   /\ \A i \in 1..n : parts[i] \in system
                   /\ n = Len(parts) \/ parts[n + 1] \notin system
  IN (/\ pathArg \in DOMAIN pathMapping
      /\ isAbsolute(pathArg)
      /\ ~StartsWith(pathArg, homedir)
      /\ ~Includes(pathArg, <<"/", "home", "/", "daytona">>)) =>
       pathMapping[pathArg]
         = pathJoin(<<Chars(rootDir)>> \o SubSeq(parts, dropped + 1, Len(parts)))

\* C35: for every input, the empty string, a text that is not JSON and a
\* valid JSON text without metadata included, parseToolCallOutput returns
\* an output that is a string together with metadata that holds an integer
\* exit_code.
C35_AlwaysDecodable ==
  parseRun.stage = "done" =>
    /\ parseRun.output \in Seq(STRING)
    /\ parseRun.exit_code \in {"0", "1"}

\* C36: once initialize() has rejected, the rejected promise stays the stored
\* one, no step calls client.create again, and every call that waited for
\* it ends rejected with the stored error: cleanup() does not reset a failed
\* initialization.
C36_FailedInitKept ==
  [][(initPromise # 0 /\ promises[initPromise].st = "rejected") =>
       /\ initPromise' = initPromise
       /\ promises'[initPromise] = promises[initPromise]
       /\ createCalls' = createCalls
       /\ \A t \in Calls :
            (calls[t].pc = "init1" /\ calls[t].p = initPromise
               /\ calls'[t].pc # "init1") =>
              calls'[t].res = Rejected(promises[initPromise].err)]_vars

\* C37: client.remove is called at most once with each workspace and never
\* with null, also when cleanup() is called again while an earlier cleanup()
\* is suspended on deleteSession or on client.remove.
C37_RemoveOnce ==
  \A a \in DOMAIN removeArgs : a # 0 /\ removeArgs[a] <= 1

\* C38: a cleanup() that calls client.remove has called deleteSession with
\* every session a createSession of exec has created in the workspace, the
\* fallback session default-exec-session included.
C38_CreatedSessionsDeleted ==
  [][\A c \in Cleanups :
       (cleanups[c].pc # "remove" /\ cleanups'[c].pc = "remove") =>
         \A sid \in csDone :
           \E k \in 1..Len(cleanups'[c].tried) : cleanups'[c].tried[k] = sid]_vars

\* C39: for exec with a working directory w and an argv [c, f], c one of
\* the commands of fixSimpleFilenamePaths and f a simple file name, the
\* submitted command runs in mapPath(w) and names the file f of that
\* directory, as f or by its full path.
C39_RootedInWorkdir ==
  LET cmd == execRun.cmd
      w == execRun.workdir
  IN (/\ execRun.stage \in {"sent", "done"}
      /\ w # << >>
      /\ Len(cmd) = 2
      /\ cmd[1] \in {<<"rm">>, <<"ls">>, <<"cat">>, <<"chmod">>, <<"python">>,
                     <<"python", "3">>, <<"head">>, <<"tail">>, <<"mkdir">>}
      /\ cmd[2] = <<"foo">>) =>
       \E file \in {cmd[2], pathJoin(<<pathMapping[w], cmd[2]>>)} :
         execRun.request = <<"cd", " ">> \o pathMapping[w] \o <<" ", "&", "&", " ">>
                             \o cmd[1] \o <<" ">> \o file

\* C40: for an argv that holds none of the patterns of isWebServerCommand,
\* exec returns what the remote answered as stdout, stderr and exitCode, or
\* the result of its catch block, with no banner, whatever the working
\* directory is.
C40_BannerByArgvOnly ==
  (execRun.stage = "done" /\ ~isWebServerCommand(Join(execRun.cmd, <<" ">>))) =>
    \/ \E r \in Responses : execRun.res = Value(r.output, r.error, r.exitCode)
    \/ \E m \in ErrMsgs : execRun.res = ExecCatch(m)

====
